---------------------------- MODULE Spec2Model ----------------------------
(***************************************************************************)
(* A model of the data-availability node: the durable store (db/db.go),    *)
(* the sequence types (types: HashToSign, OffChainData, Signer), the       *)
(* sequencer tracker (sequencer/tracker.go) and, from the specification,   *)
(* the batch synchronizer, the resolver and the SignSequence endpoint that *)
(* drive them.                                                             *)
(***************************************************************************)
EXTENDS Integers, Sequences, FiniteSets, TLC

(***************************************************************************)
(* Bounds of the model.                                                    *)
(***************************************************************************)
\* Blocks of L1 the model lets the chain grow to.
MaxHead == 4
\* Reorganisations of L1 in one behaviour.
MaxReorgs == 1
\* Calls the store exerciser (StoreSpec) makes in one behaviour.
MaxCalls == 3
\* Changes of the trusted sequencer (address or URL) on L1 in one behaviour.
MaxChanges == 2
\* Subscriptions a watcher has left behind that the L1 client keeps alive.
MaxLeaked == 1

(***************************************************************************)
(* Byte strings and their hexadecimal text forms.                          *)
(***************************************************************************)
HexChars == <<"0", "1", "2", "3", "4", "5", "6", "7",
              "8", "9", "a", "b", "c", "d", "e", "f">>

IsHexChar(c) == \E i \in 1..16 : HexChars[i] = c

HexVal(c) == (CHOOSE i \in 1..16 : HexChars[i] = c) - 1

RECURSIVE Bytes2Hex_Unpadded(_)
\* A different encoding: a byte below 16 is written as one digit.
Bytes2Hex_Unpadded(b) ==
    IF b = <<>> THEN <<>>
    ELSE (IF Head(b) < 16 THEN <<HexChars[Head(b) + 1]>>
          ELSE <<HexChars[(Head(b) \div 16) + 1], HexChars[(Head(b) % 16) + 1]>>)
         \o Bytes2Hex_Unpadded(Tail(b))

RECURSIVE Bytes2Hex(_)
\* common.Bytes2Hex: two lower-case digits per byte, no prefix.
Bytes2Hex(b) ==
    IF b = <<>> THEN <<>>
    ELSE <<HexChars[(Head(b) \div 16) + 1], HexChars[(Head(b) % 16) + 1]>>
         \o Bytes2Hex(Tail(b))

RECURSIVE Hex2Bytes(_)
\* common.Hex2Bytes: hex.DecodeString with the error dropped, so the bytes
\* decoded before the first bad pair are what is returned.
Hex2Bytes(s) ==
    IF Len(s) < 2 THEN <<>>
    ELSE IF ~(IsHexChar(s[1]) /\ IsHexChar(s[2])) THEN <<>>
    ELSE <<HexVal(s[1]) * 16 + HexVal(s[2])>> \o Hex2Bytes(SubSeq(s, 3, Len(s)))

has0xPrefix(s) == Len(s) >= 2 /\ s[1] = "0" /\ s[2] \in {"x", "X"}

\* common.FromHex: optional 0x prefix, an odd number of digits is padded left.
FromHex(s) ==
    LET t == IF has0xPrefix(s) THEN SubSeq(s, 3, Len(s)) ELSE s
        u == IF Len(t) % 2 = 1 THEN <<"0">> \o t ELSE t
    IN  Hex2Bytes(u)

(***************************************************************************)
(* Digests.  Keccak-256 is taken as an ideal hash: a digest is the tagged  *)
(* preimage, so two digests are equal exactly when their preimages are.    *)
(* A digest's text form is the prefix with the digest's digits.            *)
(***************************************************************************)
Keccak256Hash(data) == [keccak |-> data]

\* common.Hash.Hex
HashHex(h) == <<"0x", h>>

\* common.HexToHash on a text produced by Hash.Hex
HexToHash(s) == s[2]

(***************************************************************************)
(* The durable store (db/db.go).  A table is a value; a method takes the   *)
(* table and returns the table it leaves with the error it returns.        *)
(*   sync_tasks        : task -> block            (primary key task)       *)
(*   unresolved_batches: set of [num, hash]       (primary key num, hash)  *)
(*   offchain_data     : key -> [value, batch_num] (primary key key)       *)
(* The key and hash columns hold the digest's text, the value column the   *)
(* payload's hexadecimal text.                                             *)
(* A fault says where the database fails during one call: at BeginTxx, at  *)
(* the ExecContext of row exec (0: nowhere), at the Rollback that follows, *)
(* at Commit.                                                              *)
(***************************************************************************)
NoFault == [begin |-> FALSE, exec |-> 0, rollback |-> FALSE, commit |-> FALSE]

ExecFault(i) == [NoFault EXCEPT !.exec = i]

CommitFault == [NoFault EXCEPT !.commit = TRUE]

BeginFault == [NoFault EXCEPT !.begin = TRUE]

RollbackFault(i) == [NoFault EXCEPT !.exec = i, !.rollback = TRUE]

ErrNil == <<>>

ErrBegin == <<"begin failed">>

ErrExec == <<"exec failed">>

ErrRollback == <<"rollback failed">>

ErrCommit == <<"commit failed">>

ErrNoRows == <<"sql: no rows in result set">>

ErrStateNotSynchronized == <<"state not synchronized">>

\* fmt.Errorf("%v: rollback caused by %v", txErr, err): a new error whose
\* text holds both messages.  An error is the list of its message's parts,
\* the nil error the empty list.
RollbackErrorf(txErr, err) == txErr \o <<": rollback caused by ">> \o err

\* The error a multi-row write returns under a fault, for n rows.
TxError(n, fault) ==
    IF fault.begin THEN ErrBegin
    ELSE IF fault.exec \in 1..n
         THEN IF fault.rollback THEN RollbackErrorf(ErrRollback, ErrExec)
              ELSE ErrExec
    ELSE IF fault.commit THEN ErrCommit
    ELSE ErrNil

\* One call on the database made within a multi-row write: which call, for
\* which row of the argument (0: none), and whether it succeeded.
TxCall(op, row, ok) == [op |-> op, row |-> row, ok |-> ok]

\* A different loop: after a row fails it goes on with the next rows and
\* commits.
TxLog_GoOnAfterFailure(n, fault) ==
    IF fault.begin THEN <<TxCall("BeginTxx", 0, FALSE)>>
    ELSE <<TxCall("BeginTxx", 0, TRUE)>>
         \o [i \in 1..n |-> TxCall("ExecContext", i, i # fault.exec)]
         \o <<TxCall("Commit", 0, ~fault.commit)>>

\* The calls a multi-row write of n rows makes under a fault, in order:
\* BeginTxx; ExecContext row by row up to the first that fails, then Rollback
\* and return; with no failed row, Commit.
TxLog(n, fault) ==
    IF fault.begin THEN <<TxCall("BeginTxx", 0, FALSE)>>
    ELSE IF fault.exec \in 1..n
         THEN <<TxCall("BeginTxx", 0, TRUE)>>
              \o [i \in 1..fault.exec |-> TxCall("ExecContext", i, i # fault.exec)]
              \o <<TxCall("Rollback", 0, ~fault.rollback)>>
    ELSE <<TxCall("BeginTxx", 0, TRUE)>>
         \o [i \in 1..n |-> TxCall("ExecContext", i, TRUE)]
         \o <<TxCall("Commit", 0, ~fault.commit)>>

\* A different database: every executed statement is visible at once.
TxCommitted_Autocommit(log) == \E i \in 1..Len(log) : log[i].op = "ExecContext" /\ log[i].ok

\* The database makes a transaction's rows visible when its Commit succeeds,
\* and never otherwise.
TxCommitted(log) == \E i \in 1..Len(log) : log[i].op = "Commit" /\ log[i].ok

RECURSIVE TxRowsFrom(_, _, _)
TxRowsFrom(rows, log, i) ==
    IF i > Len(rows) THEN <<>>
    ELSE (IF \E j \in 1..Len(log) : log[j] = TxCall("ExecContext", i, TRUE)
          THEN <<rows[i]>> ELSE <<>>) \o TxRowsFrom(rows, log, i + 1)

\* The rows of the argument whose statements the transaction executed.
TxRows(rows, log) == TxRowsFrom(rows, log, 1)

\* A different statement: the row takes the block after the one given.
StoreLastProcessedBlock_NextBlock(tasks, block, task) ==
    [t \in (DOMAIN tasks) \cup {task} |-> IF t = task THEN block + 1 ELSE tasks[t]]

\* INSERT INTO sync_tasks ... ON CONFLICT (task) DO UPDATE SET block = EXCLUDED.block
StoreLastProcessedBlock(tasks, block, task) ==
    [t \in (DOMAIN tasks) \cup {task} |-> IF t = task THEN block ELSE tasks[t]]

\* A different read: a missing row reads as block 0 without an error.
GetLastProcessedBlock_ZeroOnNoRows(tasks, task) ==
    [block |-> IF task \in DOMAIN tasks THEN tasks[task] ELSE 0, err |-> ErrNil]

\* SELECT block FROM sync_tasks WHERE task = $1, scanned into a uint64
GetLastProcessedBlock(tasks, task) ==
    IF task \in DOMAIN tasks
    THEN [block |-> tasks[task], err |-> ErrNil]
    ELSE [block |-> 0, err |-> ErrNoRows]

\* One row of StoreUnresolvedBatchKeys: ON CONFLICT (num, hash) DO NOTHING
InsertUnresolved(tbl, bk) == tbl \cup {[num |-> bk.Number, hash |-> HashHex(bk.Hash)]}

RECURSIVE InsertAllUnresolved(_, _)
InsertAllUnresolved(tbl, bks) ==
    IF bks = <<>> THEN tbl
    ELSE InsertAllUnresolved(InsertUnresolved(tbl, Head(bks)), Tail(bks))

\* A different loop: it stops after the first key.
StoreUnresolvedBatchKeys_FirstOnly(tbl, bks, fault) ==
    LET err == TxError(Len(bks), fault)
    IN  [tbl |-> IF err = ErrNil /\ bks # <<>> THEN InsertUnresolved(tbl, Head(bks)) ELSE tbl,
         err |-> err]

\* The rows are written inside one transaction: they show only if no row
\* fails and the commit succeeds.
StoreUnresolvedBatchKeys(tbl, bks, fault) ==
    LET log == TxLog(Len(bks), fault)
    IN  [tbl |-> IF TxCommitted(log) THEN InsertAllUnresolved(tbl, TxRows(bks, log)) ELSE tbl,
         err |-> TxError(Len(bks), fault)]

\* A different statement: LIMIT $1 - 1.
GetUnresolvedBatchKeys_OneLess(tbl, limit) ==
    LET m == IF limit > 0 THEN limit - 1 ELSE 0
        n == IF m < Cardinality(tbl) THEN m ELSE Cardinality(tbl)
    IN  { [i \in 1..n |-> [Number |-> f[i].num, Hash |-> HexToHash(f[i].hash)]] :
            f \in { g \in [1..n -> tbl] : \A i, j \in 1..n : i # j => g[i] # g[j] } }

\* SELECT num, hash FROM unresolved_batches LIMIT $1: with no ORDER BY the
\* database returns any min(limit, rows) rows in any order.  The set of the
\* lists the call may return.
GetUnresolvedBatchKeys(tbl, limit) ==
    LET n == IF limit < Cardinality(tbl) THEN limit ELSE Cardinality(tbl)
    IN  { [i \in 1..n |-> [Number |-> f[i].num, Hash |-> HexToHash(f[i].hash)]] :
            f \in { g \in [1..n -> tbl] : \A i, j \in 1..n : i # j => g[i] # g[j] } }

\* A different statement: DELETE ... WHERE hash = $2, the number left out of the condition.
DeleteUnresolved_ByHash(tbl, bk) == {r \in tbl : r.hash # HashHex(bk.Hash)}

\* A different statement: DELETE ... WHERE num = $1, the hash left out of the condition.
DeleteUnresolved_ByNumber(tbl, bk) == {row \in tbl : row.num # bk.Number}

\* One row of DeleteUnresolvedBatchKeys: DELETE ... WHERE num = $1 AND hash = $2
DeleteUnresolved(tbl, bk) == tbl \ {[num |-> bk.Number, hash |-> HashHex(bk.Hash)]}

RECURSIVE DeleteAllUnresolved(_, _)
DeleteAllUnresolved(tbl, bks) ==
    IF bks = <<>> THEN tbl
    ELSE DeleteAllUnresolved(DeleteUnresolved(tbl, Head(bks)), Tail(bks))

DeleteUnresolvedBatchKeys(tbl, bks, fault) ==
    LET log == TxLog(Len(bks), fault)
    IN  [tbl |-> IF TxCommitted(log) THEN DeleteAllUnresolved(tbl, TxRows(bks, log)) ELSE tbl,
         err |-> TxError(Len(bks), fault)]

\* A different upsert: on conflict the batch number is added to the row's.
UpsertOffChainData_Accumulate(tbl, d) ==
    LET k == HashHex(d.Key)
    IN  [x \in (DOMAIN tbl) \cup {k} |->
            IF x # k THEN tbl[x]
            ELSE [value |-> Bytes2Hex(d.Value),
                  batch_num |-> IF k \in DOMAIN tbl THEN tbl[k].batch_num + d.BatchNum
                                ELSE d.BatchNum]]

\* One row of StoreOffChainData:
\* ON CONFLICT (key) DO UPDATE SET value = EXCLUDED.value, batch_num = EXCLUDED.batch_num
UpsertOffChainData(tbl, d) ==
    LET k == HashHex(d.Key)
    IN  [x \in (DOMAIN tbl) \cup {k} |->
            IF x = k THEN [value |-> Bytes2Hex(d.Value), batch_num |-> d.BatchNum]
            ELSE tbl[x]]

RECURSIVE UpsertAllOffChainData(_, _)
UpsertAllOffChainData(tbl, od) ==
    IF od = <<>> THEN tbl
    ELSE UpsertAllOffChainData(UpsertOffChainData(tbl, Head(od)), Tail(od))

StoreOffChainData(tbl, od, fault) ==
    LET log == TxLog(Len(od), fault)
    IN  [tbl |-> IF TxCommitted(log) THEN UpsertAllOffChainData(tbl, TxRows(od, log)) ELSE tbl,
         err |-> TxError(Len(od), fault)]

\* The row of a key as the item the reads return.
RowToOffChainData(tbl, k) ==
    [Key |-> HexToHash(k), Value |-> FromHex(tbl[k].value), BatchNum |-> tbl[k].batch_num]

\* A different read: sql.ErrNoRows is returned as it is.
GetOffChainData_NoRows(tbl, key) ==
    IF HashHex(key) \in DOMAIN tbl
    THEN [data |-> <<RowToOffChainData(tbl, HashHex(key))>>, err |-> ErrNil]
    ELSE [data |-> <<>>, err |-> ErrNoRows]

\* SELECT ... WHERE key = $1 LIMIT 1; sql.ErrNoRows becomes ErrStateNotSynchronized
GetOffChainData(tbl, key) ==
    IF HashHex(key) \in DOMAIN tbl
    THEN [data |-> <<RowToOffChainData(tbl, HashHex(key))>>, err |-> ErrNil]
    ELSE [data |-> <<>>, err |-> ErrStateNotSynchronized]

\* A different query: WHERE key = the first key only.
ListOffChainData_FirstKey(tbl, keys) ==
    IF Len(keys) = 0 THEN {}
    ELSE { RowToOffChainData(tbl, k) : k \in {HashHex(keys[1])} \cap DOMAIN tbl }

\* SELECT ... WHERE key IN (?): the rows found, in no guaranteed order (a set).
ListOffChainData(tbl, keys) ==
    IF Len(keys) = 0 THEN {}
    ELSE { RowToOffChainData(tbl, k) :
             k \in { HashHex(keys[i]) : i \in 1..Len(keys) } \cap DOMAIN tbl }

\* SELECT COUNT(*) FROM offchain_data
CountOffchainData(tbl) == Cardinality(DOMAIN tbl)

\* exists(key): the presence check of the store's interface.
Exists(tbl, key) == GetOffChainData(tbl, key).err = ErrNil

L1SyncTask == "L1"

\* getStartBlock: the last processed block of task "L1", lowered by one when
\* it is above 0 (a block may have been processed in part); the error of
\* the read is returned as it is.
getStartBlock(tasks) ==
    LET r == GetLastProcessedBlock(tasks, L1SyncTask)
    IN  [block |-> IF r.block > 0 THEN r.block - 1 ELSE r.block, err |-> r.err]

\* setStartBlock: one transaction around StoreLastProcessedBlock("L1", block).
setStartBlock(tasks, block, fault) ==
    [tasks |-> IF fault = NoFault THEN StoreLastProcessedBlock(tasks, block, L1SyncTask)
               ELSE tasks,
     err |-> IF fault.begin THEN ErrBegin
             ELSE IF fault.exec = 1 THEN ErrExec
             ELSE IF fault.commit THEN ErrCommit ELSE ErrNil]

ErrNotFound(key) == <<"offchain data not found", key>>

\* The retrieval endpoint ListOffChainData: the rows the store finds, put
\* in a map by key, behind a membership check of every requested key; the
\* first requested key that has no row fails the call.
RpcListOffChainData(tbl, keys) ==
    LET list == ListOffChainData(tbl, keys)
        missing == { i \in 1..Len(keys) : \A d \in list : d.Key # keys[i] }
    IN  IF missing # {}
        THEN [data |-> <<>>,
              err |-> ErrNotFound(keys[CHOOSE i \in missing : \A j \in missing : i <= j])]
        ELSE [data |-> [k \in { d.Key : d \in list } |->
                            (CHOOSE d \in list : d.Key = k).Value],
              err |-> ErrNil]

(***************************************************************************)
(* Sequences and their signatures (package types).                         *)
(* A batch is [L2Data, ForcedGER, ForcedTimestamp, Coinbase,               *)
(* ForcedBlockHashL1]; a sequence is [Batches, OldAccInputHash,            *)
(* L1InfoRoot, MaxSequenceTimestamp].                                      *)
(***************************************************************************)
\* solsha3.SoliditySHA3 of the six tightly packed values: the packing of
\* fixed-width values is injective, the hash ideal.
SoliditySHA3(values) == [sha3 |-> values]

\* common.Hash{}
ZeroHash == [zero |-> TRUE]

\* A different round: the forced values are never used.
HashBatch_RegularOnly(s, currentHash, b) ==
    SoliditySHA3(<<currentHash, Keccak256Hash(b.L2Data), s.L1InfoRoot,
                   s.MaxSequenceTimestamp, b.Coinbase, ZeroHash>>)

\* One round of HashToSign's loop: the accumulator after batch b.
HashBatch(s, currentHash, b) ==
    IF b.ForcedTimestamp > 0
    THEN SoliditySHA3(<<currentHash, Keccak256Hash(b.L2Data), b.ForcedGER,
                        b.ForcedTimestamp, b.Coinbase, b.ForcedBlockHashL1>>)
    ELSE SoliditySHA3(<<currentHash, Keccak256Hash(b.L2Data), s.L1InfoRoot,
                        s.MaxSequenceTimestamp, b.Coinbase, ZeroHash>>)

RECURSIVE HashToSignFrom(_, _, _)
HashToSignFrom(s, currentHash, batches) ==
    IF batches = <<>> THEN currentHash
    ELSE HashToSignFrom(s, HashBatch(s, currentHash, Head(batches)), Tail(batches))

\* SequenceBanana.HashToSign: the accumulated input hash.
HashToSign(s) == HashToSignFrom(s, s.OldAccInputHash, s.Batches)

\* A different derivation: every item is keyed by the hash of the first batch's data.
OffChainData_FirstKey(s) ==
    [i \in 1..Len(s.Batches) |->
        [Key |-> Keccak256Hash(s.Batches[1].L2Data),
         Value |-> s.Batches[i].L2Data,
         BatchNum |-> 0]]

\* SequenceBanana.OffChainData: one item per batch; BatchNum is not set and
\* keeps the zero value.
OffChainData(s) ==
    [i \in 1..Len(s.Batches) |->
        [Key |-> Keccak256Hash(s.Batches[i].L2Data),
         Value |-> s.Batches[i].L2Data,
         BatchNum |-> 0]]

signatureLen == 65

\* The address of a private key (crypto.PubkeyToAddress of its public key).
PubkeyToAddress(key) == <<"address of", key>>

\* The address recovery yields from a signature that was not made over the
\* hash at hand, or under the other recovery id: some address that is no
\* known key's.
UnrelatedAddress == <<"address of", "nobody">>

\* common.Address{}
ZeroAddress == <<"address of", "zero">>

ErrInvalidSignature == <<"invalid signature">>

ErrRecovery == <<"invalid signature recovery id">>

\* The recovery id of key's signature over hash.
RecoveryId(key, hash) == IF key = "K1" THEN 0 ELSE 1

\* A signature is [len, key, over, v]: its length in bytes, the key that
\* made (r, s), the hash they were made over, and its last byte.
\* The helper Sign: the ECDSA signature with 27 added to the recovery id.
Sign(privateKey, hash) ==
    [len |-> signatureLen, key |-> privateKey, over |-> hash,
     v |-> RecoveryId(privateKey, hash) + 27]

\* crypto.SigToPub followed by crypto.PubkeyToAddress, on a 65-byte
\* signature whose last byte is recid.
RecoverAddress(hash, sig, recid) ==
    IF recid >= 2 THEN [addr |-> ZeroAddress, err |-> ErrRecovery]
    ELSE IF sig.over = hash /\ recid = RecoveryId(sig.key, sig.over)
         THEN [addr |-> PubkeyToAddress(sig.key), err |-> ErrNil]
    ELSE [addr |-> UnrelatedAddress, err |-> ErrNil]

\* A different recovery: the signer is recovered over the hash the signature names, not
\* over the hash of the sequence it came with.
Signer_AnyHash(ss) ==
    IF ss.Signature.len # signatureLen
    THEN [addr |-> ZeroAddress, err |-> ErrInvalidSignature]
    ELSE RecoverAddress(ss.Signature.over, ss.Signature,
                        (ss.Signature.v - 27) % 256)

\* A different decoding: 27 is taken from the last byte of the request's
\* own signature, no copy made.
SignerDecode_InPlace(signature) ==
    [held |-> [signature EXCEPT !.v = (@ - 27) % 256],
     sig |-> [signature EXCEPT !.v = (@ - 27) % 256]]

\* Signer, sig := make([]byte, signatureLen); copy(sig, s.Signature);
\* sig[64] -= 27: the signature the request holds afterwards, and the copy
\* with its last byte lowered by 27 (a byte: mod 256).
SignerDecode(signature) ==
    [held |-> signature,
     sig |-> [signature EXCEPT !.v = (@ - 27) % 256]]

\* SignedSequenceBanana.Signer: the length check, then recovery over
\* HashToSign with the last byte of the copy as recovery id.
Signer(ss) ==
    IF ss.Signature.len # signatureLen
    THEN [addr |-> ZeroAddress, err |-> ErrInvalidSignature]
    ELSE RecoverAddress(HashToSign(ss.Sequence), ss.Signature,
                        SignerDecode(ss.Signature).sig.v)

\* SequenceBanana.Sign
SequenceSign(s, privateKey) == Sign(privateKey, HashToSign(s))

(***************************************************************************)
(* The data of the model: payloads, the L1 chain, the requests.            *)
(***************************************************************************)
P1 == <<1>>

P2 == <<2, 255>>

P3 == <<171>>

\* What a source that answers with the wrong bytes returns.
PWrong == <<>>

\* The batches sequenced in block b of the chain's fork f, in event order.
\* Batch 3 carries the payload of batch 1: two keys of one hash.  A
\* reorganisation replaces batch 2's payload.
BlockBatches(f, b) ==
    IF b = 2 THEN <<[Number |-> 1, L2Data |-> P1]>>
    ELSE IF b = 3 /\ f = 0
         THEN <<[Number |-> 2, L2Data |-> P2], [Number |-> 3, L2Data |-> P1]>>
    ELSE IF b = 3 THEN <<[Number |-> 2, L2Data |-> P3]>>
    ELSE <<>>

\* The configuration the synchronizer consumes.
GenesisBlock == 0

ConfirmationDepth == 1

MaxRange == 2

ReorgWindow == 2

ResolveBatchLimit == 2

\* The private keys: the trusted sequencer's, a stranger's, the node's own.
SequencerKey == "K1"

StrangerKey == "K2"

NodeKey == "KN"

Batch(data, forcedTimestamp) ==
    [L2Data |-> data, ForcedGER |-> [keccak |-> <<7>>], ForcedTimestamp |-> forcedTimestamp,
     Coinbase |-> PubkeyToAddress(SequencerKey), ForcedBlockHashL1 |-> [keccak |-> <<9>>]]

SequenceOf(batches) ==
    [Batches |-> batches, OldAccInputHash |-> [keccak |-> <<5>>],
     L1InfoRoot |-> [keccak |-> <<6>>], MaxSequenceTimestamp |-> 40]

SeqA == SequenceOf(<<Batch(P1, 0)>>)

SeqB == SequenceOf(<<Batch(P2, 30), Batch(P1, 0)>>)

\* The signatures a caller may send with sequence s: the sequencer's, a
\* stranger's, the sequencer's over another sequence, the sequencer's with
\* the other recovery id, with the recovery id not raised by 27, and cut to
\* 64 bytes.
SignaturesFor(s) ==
    LET good == Sign(SequencerKey, HashToSign(s))
    IN  { good,
          Sign(StrangerKey, HashToSign(s)),
          Sign(SequencerKey, HashToSign(IF s = SeqA THEN SeqB ELSE SeqA)),
          [good EXCEPT !.v = 55 - good.v],
          [good EXCEPT !.v = good.v - 27],
          [good EXCEPT !.len = 64] }

Requests ==
    { [Sequence |-> SeqA, Signature |-> sig] : sig \in SignaturesFor(SeqA) }
    \cup { [Sequence |-> SeqB, Signature |-> sig] :
             sig \in {Sign(SequencerKey, HashToSign(SeqB)), Sign(StrangerKey, HashToSign(SeqB))} }

\* The database faults the node's behaviours include.
NodeFaults == {NoFault, ExecFault(1), CommitFault}

(***************************************************************************)
(* The state.                                                              *)
(***************************************************************************)
VARIABLES
    syncTasks,    \* table sync_tasks
    unresolved,   \* table unresolved_batches
    offchain,     \* table offchain_data
    head,         \* L1: the number of the latest block
    chain,        \* L1: the fork each block belongs to
    bs,           \* the batch synchronizer and its resolver: position and locals
    covered,      \* history: the batch keys of every range the cursor has passed
    rpc,          \* the SignSequence endpoint: position, request, last outcome
    addr,         \* Tracker.addr
    url,          \* Tracker.url
    stop,         \* Tracker.stop: the channel, open or closed
    started,      \* Tracker.startOnce has run
    parentCtx,    \* the context handed to Tracker.Start
    watcher,      \* the two watcher loops: position and locals
    subs,         \* L1 client: the live subscriptions of each watcher
    l1seq,        \* L1 contract: the trusted sequencer's address and URL
    call          \* the store exerciser: the last call and what it returned

nodeVars == <<syncTasks, unresolved, offchain, head, chain, bs, covered, rpc>>

trackerVars == <<addr, url, stop, started, parentCtx, watcher, subs, l1seq>>

vars == <<syncTasks, unresolved, offchain, head, chain, bs, covered, rpc,
          addr, url, stop, started, parentCtx, watcher, subs, l1seq, call>>

(***************************************************************************)
(* L1 as the synchronizer sees it.                                         *)
(***************************************************************************)
Min(a, b) == IF a < b THEN a ELSE b

Max(a, b) == IF a > b THEN a ELSE b

\* The hash of block b's header: it changes when a reorganisation replaces b.
HeaderHash(b) == <<"header", IF b \in DOMAIN chain THEN chain[b] ELSE 0, b>>

BatchKeyOf(batch) == [Number |-> batch.Number, Hash |-> Keccak256Hash(batch.L2Data)]

RECURSIVE FilterSequenceBatches(_, _)
\* The batch keys of the SequenceBatches events of blocks from..to, in order.
FilterSequenceBatches(from, to) ==
    IF to < from THEN <<>>
    ELSE LET evs == BlockBatches(chain[from], from)
         IN  [i \in 1..Len(evs) |-> BatchKeyOf(evs[i])]
             \o FilterSequenceBatches(from + 1, to)

\* A block is mined.
L1NewBlock ==
    /\ head < MaxHead
    /\ head' = head + 1
    /\ UNCHANGED <<syncTasks, unresolved, offchain, chain, bs, covered, rpc, call>>
    /\ UNCHANGED trackerVars

\* The latest fork of the chain.
LatestFork == CHOOSE f \in {chain[b] : b \in DOMAIN chain} : \A b \in DOMAIN chain : chain[b] <= f

\* A reorganisation replaces the blocks from r on, at most ReorgWindow deep,
\* by those of a new fork.
L1Reorg ==
    /\ LatestFork < MaxReorgs
    /\ \E r \in Max(1, head - ReorgWindow + 1)..head :
          chain' = [b \in DOMAIN chain |-> IF b >= r THEN LatestFork + 1 ELSE chain[b]]
    /\ UNCHANGED <<syncTasks, unresolved, offchain, head, bs, covered, rpc, call>>
    /\ UNCHANGED trackerVars

(***************************************************************************)
(* The batch synchronizer and its resolver.  Their code is not             *)
(* among the sources; the steps are those of the specification's sections  *)
(* 4.E and 4.F, over the store's methods as db/db.go has them: each        *)
(* multi-row write begins and commits a transaction of its own, and        *)
(* StoreLastProcessedBlock is one statement, so two writes of one step are *)
(* two commits with the states between them visible to every reader.       *)
(***************************************************************************)
\* The synchronizer at position pc with its locals cleared.
BsAt(pc, lastHash) ==
    [pc |-> pc, to |-> 0, toHash |-> <<>>, scanned |-> <<>>, newKeys |-> <<>>, ks |-> <<>>,
     answers |-> <<>>, results |-> <<>>, resolved |-> <<>>, lastHash |-> lastHash]

Cursor == GetLastProcessedBlock(syncTasks, L1SyncTask).block

RECURSIVE SelectSeq2(_, _)
\* The items of a list that are in a set, in order.
SelectSeq2(seq, keep) ==
    IF seq = <<>> THEN <<>>
    ELSE (IF Head(seq) \in keep THEN <<Head(seq)>> ELSE <<>>) \o SelectSeq2(Tail(seq), keep)

Range(seq) == {seq[i] : i \in 1..Len(seq)}

\* INIT: read the cursor; if there is none, seed it with the genesis block.
SyncInit ==
    /\ bs.pc = "init"
    /\ syncTasks' = IF GetLastProcessedBlock(syncTasks, L1SyncTask).err = ErrNil
                    THEN syncTasks
                    ELSE StoreLastProcessedBlock(syncTasks, GenesisBlock, L1SyncTask)
    /\ bs' = BsAt("follow", <<>>)
    /\ UNCHANGED <<unresolved, offchain, head, chain, covered, rpc, call>>
    /\ UNCHANGED trackerVars

\* FOLLOW 2: the header at the cursor is not the one seen when the cursor was
\* stored: rewind the cursor by the reorg window and restart the step.
SyncRewind ==
    /\ bs.pc = "follow"
    /\ bs.lastHash # <<>>
    /\ HeaderHash(Cursor) # bs.lastHash
    /\ syncTasks' = StoreLastProcessedBlock(syncTasks,
                        Max(Cursor - ReorgWindow, GenesisBlock), L1SyncTask)
    /\ bs' = BsAt("follow", <<>>)
    /\ UNCHANGED <<unresolved, offchain, head, chain, covered, rpc, call>>
    /\ UNCHANGED trackerVars

\* FOLLOW 1, 3, 4: the range from..to, its events' batch keys, and of those
\* the keys with no payload in offchain_data.  With to < from the step sleeps.
SyncFollow ==
    /\ bs.pc = "follow"
    /\ bs.lastHash = <<>> \/ HeaderHash(Cursor) = bs.lastHash
    /\ LET from == Cursor + 1
           to == Min(head - ConfirmationDepth, from + MaxRange - 1)
           scanned == FilterSequenceBatches(from, to)
       IN  /\ to >= from
           /\ bs' = [bs EXCEPT !.pc = "storeKeys", !.to = to,
                       !.toHash = HeaderHash(to), !.scanned = scanned,
                       !.newKeys = SelectSeq2(scanned,
                           {k \in Range(scanned) : ~Exists(offchain, k.Hash)})]
    /\ UNCHANGED <<syncTasks, unresolved, offchain, head, chain, covered, rpc, call>>
    /\ UNCHANGED trackerVars

\* FOLLOW 5, first write: storeUnresolvedBatchKeys(newKeys).  A store error
\* ends the step; the outer loop retries at the next tick.
SyncStoreKeys ==
    /\ bs.pc = "storeKeys"
    /\ \E fault \in NodeFaults :
          LET r == StoreUnresolvedBatchKeys(unresolved, bs.newKeys, fault)
          IN  /\ unresolved' = r.tbl
              /\ bs' = IF r.err = ErrNil THEN [bs EXCEPT !.pc = "storeCursor"]
                       ELSE BsAt("follow", bs.lastHash)
    /\ UNCHANGED <<syncTasks, offchain, head, chain, covered, rpc, call>>
    /\ UNCHANGED trackerVars

\* FOLLOW 5, second write: storeLastProcessedBlock("L1", to); then RESOLVE.
SyncStoreCursor ==
    /\ bs.pc = "storeCursor"
    /\ \/ /\ syncTasks' = StoreLastProcessedBlock(syncTasks, bs.to, L1SyncTask)
          /\ covered' = covered \cup Range(bs.scanned)
          /\ bs' = BsAt("resolve", bs.toHash)
       \/ /\ bs' = BsAt("follow", bs.lastHash)
          /\ UNCHANGED <<syncTasks, covered>>
    /\ UNCHANGED <<unresolved, offchain, head, chain, rpc, call>>
    /\ UNCHANGED trackerVars

\* RESOLVE 1, 2: the snapshot of at most ResolveBatchLimit unresolved keys;
\* with none, back to FOLLOW.
SyncResolve ==
    /\ bs.pc = "resolve"
    /\ \E ks \in GetUnresolvedBatchKeys(unresolved, ResolveBatchLimit) :
          bs' = IF ks = <<>> THEN BsAt("follow", bs.lastHash)
                ELSE [bs EXCEPT !.pc = "fetch", !.ks = ks]
    /\ UNCHANGED <<syncTasks, unresolved, offchain, head, chain, covered, rpc, call>>
    /\ UNCHANGED trackerVars

RECURSIVE DedupByHash(_, _)
\* Resolver 1: the keys with the first key of each hash kept.
DedupByHash(ks, seen) ==
    IF ks = <<>> THEN <<>>
    ELSE IF Head(ks).Hash \in seen THEN DedupByHash(Tail(ks), seen)
    ELSE <<Head(ks)>> \o DedupByHash(Tail(ks), seen \cup {Head(ks).Hash})

\* What the sources may answer for a key during one resolve, in the order
\* they are asked (the members, then the sequencer), failures left out:
\* nothing, wrong bytes only, or wrong bytes and then the payload.
AnswerLists(k) == {<<>>, <<PWrong>>, <<PWrong, k.Hash.keccak>>}

\* Resolver 3b, 3c: the answers whose hash is the key's.
Matching(k, answers) ==
    SelectSeq2(answers, {v \in Range(answers) : Keccak256Hash(v) = k.Hash})

\* Resolver 3a: a key whose payload is in the store is skipped: no source is
\* asked, and the key is resolved (a key is unresolved only while its payload
\* is not stored).  The keys that are asked for.
FetchedKeys(ks, tbl) ==
    SelectSeq2(DedupByHash(ks, {}), {k \in Range(ks) : ~Exists(tbl, k.Hash)})

\* The resolved keys: of the deduplicated keys, those skipped and those a
\* source answered with matching bytes.
ResolvedKeys(ks, tbl, answers) ==
    SelectSeq2(DedupByHash(ks, {}),
               {k \in Range(ks) : Exists(tbl, k.Hash) \/ Matching(k, answers[k]) # <<>>})

\* Resolver 3d: the items of the keys that were fetched, each from the first
\* matching answer.
ResolvedData(fetched, answers) ==
    LET got == SelectSeq2(fetched, {k \in Range(fetched) : Matching(k, answers[k]) # <<>>})
    IN  [i \in 1..Len(got) |->
            [Key |-> got[i].Hash,
             Value |-> Head(Matching(got[i], answers[got[i]])),
             BatchNum |-> got[i].Number]]

\* Resolver 1 to 3: ask the sources and collect the results.
ResolverFetch ==
    /\ bs.pc = "fetch"
    /\ \E answers \in [Range(bs.ks) -> UNION {AnswerLists(k) : k \in Range(bs.ks)}] :
          /\ \A k \in Range(bs.ks) : answers[k] \in AnswerLists(k)
          /\ \A k1, k2 \in Range(bs.ks) : k1.Hash = k2.Hash => answers[k1] = answers[k2]
          /\ bs' = [bs EXCEPT !.pc = "storeData", !.answers = answers,
                       !.resolved = ResolvedKeys(bs.ks, offchain, answers),
                       !.results = ResolvedData(FetchedKeys(bs.ks, offchain), answers)]
    /\ UNCHANGED <<syncTasks, unresolved, offchain, head, chain, covered, rpc, call>>
    /\ UNCHANGED trackerVars

\* Resolver 4, first write: storeOffChainData(results).  Only store failures
\* propagate: the resolve ends with the keys left unresolved.
ResolverStore ==
    /\ bs.pc = "storeData"
    /\ \E fault \in NodeFaults :
          LET r == StoreOffChainData(offchain, bs.results, fault)
          IN  /\ offchain' = r.tbl
              /\ bs' = IF r.err = ErrNil THEN [bs EXCEPT !.pc = "deleteKeys"]
                       ELSE BsAt("follow", bs.lastHash)
    /\ UNCHANGED <<syncTasks, unresolved, head, chain, covered, rpc, call>>
    /\ UNCHANGED trackerVars

\* Resolver 4, second write: deleteUnresolvedBatchKeys(resolvedKeys).
ResolverDelete ==
    /\ bs.pc = "deleteKeys"
    /\ \E fault \in NodeFaults :
          LET r == DeleteUnresolvedBatchKeys(unresolved, bs.resolved, fault)
          IN  /\ unresolved' = r.tbl
              /\ bs' = IF r.err = ErrNil THEN [bs EXCEPT !.pc = "resolved"]
                       ELSE BsAt("follow", bs.lastHash)
    /\ UNCHANGED <<syncTasks, offchain, head, chain, covered, rpc, call>>
    /\ UNCHANGED trackerVars

\* resolve has returned with no store error: back to FOLLOW.
ResolverReturn ==
    /\ bs.pc = "resolved"
    /\ bs' = BsAt("follow", bs.lastHash)
    /\ UNCHANGED <<syncTasks, unresolved, offchain, head, chain, covered, rpc, call>>
    /\ UNCHANGED trackerVars

\* The node stops (a crash, a restart) and starts again from INIT; what the
\* synchronizer held in memory is lost.
SyncCrash ==
    /\ bs.pc # "init"
    /\ bs' = BsAt("init", <<>>)
    /\ UNCHANGED <<syncTasks, unresolved, offchain, head, chain, covered, rpc, call>>
    /\ UNCHANGED trackerVars

(***************************************************************************)
(* The SignSequence endpoint (specification, section 4.G) over Signer,     *)
(* GetAddr, OffChainData, StoreOffChainData and Sign.                      *)
(***************************************************************************)
\* Tracker.GetAddr: the address, read under the lock.
GetAddr == addr

\* Tracker.GetUrl
GetUrl == url

ErrUnauthorized == <<"unauthorized">>

RpcIdle(req, err, sig) == [pc |-> "idle", req |-> req, err |-> err, sig |-> sig]

\* SignSequence 1 to 3: recover the signer and compare it with the tracker's
\* address; a signer that is not recovered, or is another address, fails the
\* call.
SignSequenceCheck(req) ==
    /\ rpc.pc = "idle"
    /\ LET signer == Signer(req)
       IN  rpc' = IF signer.err # ErrNil \/ signer.addr # GetAddr
                  THEN RpcIdle(<<req>>, ErrUnauthorized, <<>>)
                  ELSE [pc |-> "store", req |-> <<req>>, err |-> ErrNil, sig |-> <<>>]
    /\ UNCHANGED <<syncTasks, unresolved, offchain, head, chain, bs, covered, call>>
    /\ UNCHANGED trackerVars

\* SignSequence 4, 5: persist the sequence's off-chain data, then sign
\* the same hash with the node's key and return the signature.
SignSequenceStore ==
    /\ rpc.pc = "store"
    /\ \E fault \in NodeFaults :
          LET r == StoreOffChainData(offchain, OffChainData(rpc.req[1].Sequence), fault)
          IN  /\ offchain' = r.tbl
              /\ rpc' = IF r.err = ErrNil
                        THEN RpcIdle(rpc.req, ErrNil,
                                     <<SequenceSign(rpc.req[1].Sequence, NodeKey)>>)
                        ELSE RpcIdle(rpc.req, r.err, <<>>)
    /\ UNCHANGED <<syncTasks, unresolved, head, chain, bs, covered, call>>
    /\ UNCHANGED trackerVars

(***************************************************************************)
(* The sequencer tracker (sequencer/tracker.go): two watcher loops, one    *)
(* for the address and one for the URL, over subscriptions of the L1       *)
(* client.  A subscription delivers, in order, the events emitted while it *)
(* is alive; a loop that goes round without Unsubscribe leaves its         *)
(* subscription behind, still feeding the loop's events channel.           *)
(***************************************************************************)
Watchers == {"addr", "url"}

\* The initial trusted sequencer, as NewTracker reads it from the contract.
InitialSequencer == [addr |-> PubkeyToAddress(SequencerKey), url |-> "url1", n |-> 0]

\* The watcher before Start.
WatcherIdle == [pc |-> "idle", ctx |-> "none"]

\* No subscription: none current, none left behind.
NoSubs == [cur |-> <<>>, leaked |-> <<>>]

\* NewTracker: addr and url as the contract has them, the stop channel open.
TrackerIdle ==
    /\ addr = InitialSequencer.addr
    /\ url = InitialSequencer.url
    /\ stop = "open"
    /\ started = FALSE
    /\ parentCtx = "live"
    /\ watcher = [w \in Watchers |-> WatcherIdle]
    /\ subs = [w \in Watchers |-> NoSubs]
    /\ l1seq = InitialSequencer

\* The value the contract takes at its next change.
NextValue(w) ==
    IF w = "addr"
    THEN (IF l1seq.addr = PubkeyToAddress(SequencerKey)
          THEN PubkeyToAddress(StrangerKey) ELSE PubkeyToAddress(SequencerKey))
    ELSE (IF l1seq.url = "url1" THEN "url2" ELSE "url1")

\* The loop goes round without Unsubscribe: its subscription stays alive; the
\* client keeps at most MaxLeaked of them, the oldest one ending first.
Leak(s) ==
    LET all == s.leaked \o s.cur
    IN  [cur |-> <<>>,
         leaked |-> IF Len(all) > MaxLeaked THEN Tail(all) ELSE all]

\* Start: startOnce runs the two loops with the caller's context.
TrackerStart ==
    /\ ~started
    /\ started' = TRUE
    /\ watcher' = [w \in Watchers |-> [pc |-> "top", ctx |-> "none"]]
    /\ UNCHANGED <<addr, url, stop, parentCtx, subs, l1seq, call>>
    /\ UNCHANGED nodeVars

\* Stop: close(st.stop)
TrackerStop ==
    /\ stop = "open"
    /\ stop' = "closed"
    /\ UNCHANGED <<addr, url, started, parentCtx, watcher, subs, l1seq, call>>
    /\ UNCHANGED nodeVars

\* The caller cancels the context given to Start; the contexts derived from
\* it are done with it.
ParentCancel ==
    /\ parentCtx = "live"
    /\ parentCtx' = "cancelled"
    /\ watcher' = [w \in Watchers |->
                      IF watcher[w].ctx = "live" THEN [watcher[w] EXCEPT !.ctx = "done"]
                      ELSE watcher[w]]
    /\ UNCHANGED <<addr, url, stop, started, subs, l1seq, call>>
    /\ UNCHANGED nodeVars

\* Top of the loop, case <-ctx.Done(): the caller's context is done, so this
\* case is ready and default is not taken; the body logs.
WatcherCtxDone(w) ==
    /\ watcher[w].pc = "top"
    /\ parentCtx = "cancelled"
    /\ watcher' = [watcher EXCEPT ![w].pc = "logged"]
    /\ UNCHANGED <<addr, url, stop, started, parentCtx, subs, l1seq, call>>
    /\ UNCHANGED nodeVars

\* After the log the for loop goes round to the same select.
WatcherLogged(w) ==
    /\ watcher[w].pc = "logged"
    /\ watcher' = [watcher EXCEPT ![w].pc = "top"]
    /\ UNCHANGED <<addr, url, stop, started, parentCtx, subs, l1seq, call>>
    /\ UNCHANGED nodeVars

\* Top of the loop, default: a context with the timeout, and the Watch call
\* returns a subscription.
WatchOk(w) ==
    /\ watcher[w].pc = "top"
    /\ parentCtx = "live"
    /\ watcher' = [watcher EXCEPT ![w] = [pc |-> "select", ctx |-> "live"]]
    /\ subs' = [subs EXCEPT ![w].cur = << <<>> >>]
    /\ UNCHANGED <<addr, url, stop, started, parentCtx, l1seq, call>>
    /\ UNCHANGED nodeVars

\* Top of the loop, default: the Watch call returns an error.
WatchFail(w) ==
    /\ watcher[w].pc = "top"
    /\ parentCtx = "live"
    /\ watcher' = [watcher EXCEPT ![w] = [pc |-> "retry", ctx |-> "live"]]
    /\ UNCHANGED <<addr, url, stop, started, parentCtx, subs, l1seq, call>>
    /\ UNCHANGED nodeVars

\* for err != nil: after the retry period the Watch call, with the same
\* context, returns a subscription.  A call that fails again leaves the loop
\* where it is.
RetryOk(w) ==
    /\ watcher[w].pc = "retry"
    /\ watcher' = [watcher EXCEPT ![w].pc = "select"]
    /\ subs' = [subs EXCEPT ![w].cur = << <<>> >>]
    /\ UNCHANGED <<addr, url, stop, started, parentCtx, l1seq, call>>
    /\ UNCHANGED nodeVars

\* The timeout of the loop's context passes.
ChildDeadline(w) ==
    /\ watcher[w].ctx = "live"
    /\ watcher' = [watcher EXCEPT ![w].ctx = "done"]
    /\ UNCHANGED <<addr, url, stop, started, parentCtx, subs, l1seq, call>>
    /\ UNCHANGED nodeVars

\* A different setter: the other field goes back to its initial value.
SetValue_ResetOther(w, v) ==
    /\ addr' = IF w = "addr" THEN v ELSE InitialSequencer.addr
    /\ url' = IF w = "url" THEN v ELSE InitialSequencer.url

\* setAddr, setUrl
SetValue(w, v) ==
    /\ addr' = IF w = "addr" THEN v ELSE addr
    /\ url' = IF w = "url" THEN v ELSE url

\* select, case e := <-events: a live subscription hands over its oldest
\* event, the value is set, and the loop goes round.
WatcherEvent(w) ==
    /\ watcher[w].pc = "select"
    /\ LET all == subs[w].leaked \o subs[w].cur
       IN  \E i \in 1..Len(all) :
              /\ all[i] # <<>>
              /\ SetValue(w, Head(all[i]))
              /\ LET rest == [all EXCEPT ![i] = Tail(all[i])]
                 IN  subs' = [subs EXCEPT ![w] =
                                Leak([cur |-> IF subs[w].cur = <<>> THEN <<>>
                                              ELSE <<rest[Len(rest)]>>,
                                      leaked |-> SubSeq(rest, 1, Len(subs[w].leaked))])]
    /\ watcher' = [watcher EXCEPT ![w].pc = "top"]
    /\ UNCHANGED <<stop, started, parentCtx, l1seq, call>>
    /\ UNCHANGED nodeVars

\* select, case err := <-sub.Err(): the subscription has ended with an error.
WatcherSubErr(w) ==
    /\ watcher[w].pc = "select"
    /\ subs[w].cur # <<>>
    /\ subs' = [subs EXCEPT ![w].cur = <<>>]
    /\ watcher' = [watcher EXCEPT ![w].pc = "top"]
    /\ UNCHANGED <<addr, url, stop, started, parentCtx, l1seq, call>>
    /\ UNCHANGED nodeVars

\* select, case <-ctx.Done(): no Unsubscribe, no cancel; the loop goes round.
WatcherSelectCtxDone(w) ==
    /\ watcher[w].pc = "select"
    /\ watcher[w].ctx = "done"
    /\ subs' = [subs EXCEPT ![w] = Leak(subs[w])]
    /\ watcher' = [watcher EXCEPT ![w].pc = "top"]
    /\ UNCHANGED <<addr, url, stop, started, parentCtx, l1seq, call>>
    /\ UNCHANGED nodeVars

\* select, case <-st.stop: Unsubscribe, cancel, return.
WatcherStop(w) ==
    /\ watcher[w].pc = "select"
    /\ stop = "closed"
    /\ subs' = [subs EXCEPT ![w].cur = <<>>]
    /\ watcher' = [watcher EXCEPT ![w] = [pc |-> "exited", ctx |-> "done"]]
    /\ UNCHANGED <<addr, url, stop, started, parentCtx, l1seq, call>>
    /\ UNCHANGED nodeVars

\* L1: the contract's admin sets a new trusted sequencer address or URL while
\* the tracker runs; the event goes to every live subscription of that
\* watcher.
L1SetTrustedSequencer(w) ==
    /\ started
    /\ l1seq.n < MaxChanges
    /\ LET v == NextValue(w)
       IN  /\ l1seq' = IF w = "addr" THEN [l1seq EXCEPT !.addr = v, !.n = @ + 1]
                       ELSE [l1seq EXCEPT !.url = v, !.n = @ + 1]
           /\ subs' = [subs EXCEPT ![w] =
                         [cur |-> [i \in 1..Len(subs[w].cur) |-> Append(subs[w].cur[i], v)],
                          leaked |-> [i \in 1..Len(subs[w].leaked) |->
                                         Append(subs[w].leaked[i], v)]]]
    /\ UNCHANGED <<addr, url, stop, started, parentCtx, watcher, call>>
    /\ UNCHANGED nodeVars

\* L1 client: a subscription left behind ends (its connection drops).
LeakedSubEnds(w) ==
    /\ subs[w].leaked # <<>>
    /\ subs' = [subs EXCEPT ![w].leaked = Tail(@)]
    /\ UNCHANGED <<addr, url, stop, started, parentCtx, watcher, l1seq, call>>
    /\ UNCHANGED nodeVars

TrackerInit ==
    /\ syncTasks = <<>>
    /\ unresolved = {}
    /\ offchain = <<>>
    /\ head = 1
    /\ chain = [b \in 1..MaxHead |-> 0]
    /\ bs = BsAt("init", <<>>)
    /\ covered = {}
    /\ rpc = RpcIdle(<<>>, ErrNil, <<>>)
    /\ call = <<>>
    /\ TrackerIdle

TrackerNext ==
    \/ TrackerStart
    \/ TrackerStop
    \/ ParentCancel
    \/ \E w \in Watchers : WatcherCtxDone(w)
    \/ \E w \in Watchers : WatcherLogged(w)
    \/ \E w \in Watchers : WatchOk(w)
    \/ \E w \in Watchers : WatchFail(w)
    \/ \E w \in Watchers : RetryOk(w)
    \/ \E w \in Watchers : ChildDeadline(w)
    \/ \E w \in Watchers : WatcherEvent(w)
    \/ \E w \in Watchers : WatcherSubErr(w)
    \/ \E w \in Watchers : WatcherSelectCtxDone(w)
    \/ \E w \in Watchers : WatcherStop(w)
    \/ \E w \in Watchers : L1SetTrustedSequencer(w)
    \/ \E w \in Watchers : LeakedSubEnds(w)

TrackerSpec == TrackerInit /\ [][TrackerNext]_vars

\* Scheduling: a loop that can take a step takes it; a timer that runs fires;
\* a Watch call that is made again and again returns a subscription in the
\* end; a select case that is ready again and again is chosen in the end
\* (Go chooses among the ready cases at random).  What the caller and L1 do
\* (Start, Stop, cancel, contract changes, connections dropping) is free.
TrackerFairness ==
    \A w \in Watchers :
        /\ WF_vars(WatcherCtxDone(w))
        /\ WF_vars(WatcherLogged(w))
        /\ SF_vars(WatchOk(w))
        /\ SF_vars(RetryOk(w))
        /\ WF_vars(ChildDeadline(w))
        /\ SF_vars(WatcherEvent(w))
        /\ SF_vars(WatcherSelectCtxDone(w))
        /\ SF_vars(WatcherStop(w))

FairTrackerSpec == TrackerSpec /\ TrackerFairness

(***************************************************************************)
(* The tracker's lifecycle: callers call Start and Stop any number of      *)
(* times (at most MaxCalls each) and in any order while the loops run.     *)
(* call counts the calls and the launches of the two loops, and records    *)
(* the panic of the runtime, after which the process is gone.              *)
(***************************************************************************)
LifecycleInit ==
    /\ syncTasks = <<>>
    /\ unresolved = {}
    /\ offchain = <<>>
    /\ head = 1
    /\ chain = [b \in 1..MaxHead |-> 0]
    /\ bs = BsAt("init", <<>>)
    /\ covered = {}
    /\ rpc = RpcIdle(<<>>, ErrNil, <<>>)
    /\ call = [starts |-> 0, stops |-> 0, launched |-> 0, panic |-> FALSE]
    /\ TrackerIdle

\* Start: st.startOnce.Do(...) runs its function at the first call only.
CallStart ==
    /\ ~call.panic
    /\ call.starts < MaxCalls
    /\ started' = TRUE
    /\ watcher' = IF started THEN watcher
                  ELSE [w \in Watchers |-> [pc |-> "top", ctx |-> "none"]]
    /\ call' = [call EXCEPT !.starts = @ + 1,
                            !.launched = IF started THEN @ ELSE @ + 1]
    /\ UNCHANGED <<addr, url, stop, parentCtx, subs, l1seq>>
    /\ UNCHANGED nodeVars

\* Stop: close(st.stop); closing a closed channel panics.
CallStop ==
    /\ ~call.panic
    /\ call.stops < MaxCalls
    /\ stop' = "closed"
    /\ call' = [call EXCEPT !.stops = @ + 1, !.panic = (stop = "closed")]
    /\ UNCHANGED <<addr, url, started, parentCtx, watcher, subs, l1seq>>
    /\ UNCHANGED nodeVars

LifecycleNext ==
    \/ CallStart
    \/ CallStop
    \/ ~call.panic /\ ParentCancel
    \/ ~call.panic /\ \E w \in Watchers : WatcherCtxDone(w)
    \/ ~call.panic /\ \E w \in Watchers : WatcherLogged(w)
    \/ ~call.panic /\ \E w \in Watchers : WatchOk(w)
    \/ ~call.panic /\ \E w \in Watchers : WatchFail(w)
    \/ ~call.panic /\ \E w \in Watchers : RetryOk(w)
    \/ ~call.panic /\ \E w \in Watchers : ChildDeadline(w)
    \/ ~call.panic /\ \E w \in Watchers : WatcherEvent(w)
    \/ ~call.panic /\ \E w \in Watchers : WatcherSubErr(w)
    \/ ~call.panic /\ \E w \in Watchers : WatcherSelectCtxDone(w)
    \/ ~call.panic /\ \E w \in Watchers : WatcherStop(w)
    \/ ~call.panic /\ \E w \in Watchers : L1SetTrustedSequencer(w)
    \/ ~call.panic /\ \E w \in Watchers : LeakedSubEnds(w)

LifecycleSpec == LifecycleInit /\ [][LifecycleNext]_vars

(***************************************************************************)
(* The tracker with its readers: beside the loops, callers read the        *)
(* address and the URL and ask the sequencer for a batch at any time.      *)
(***************************************************************************)
\* Tracker.GetSequenceBatch: GetData(st.GetUrl(), batchNum), the request as
\* it goes to the sequencer.
GetSequenceBatch(batchNum) == [url |-> GetUrl, batchNum |-> batchNum]

\* A caller reads the address.
CallGetAddr ==
    /\ call' = [op |-> "GetAddr", val |-> GetAddr]
    /\ UNCHANGED trackerVars
    /\ UNCHANGED nodeVars

\* A caller reads the URL.
CallGetUrl ==
    /\ call' = [op |-> "GetUrl", val |-> GetUrl]
    /\ UNCHANGED trackerVars
    /\ UNCHANGED nodeVars

\* A caller asks the sequencer for a batch.
CallGetSequenceBatch(batchNum) ==
    /\ call' = [op |-> "GetSequenceBatch", val |-> GetSequenceBatch(batchNum)]
    /\ UNCHANGED trackerVars
    /\ UNCHANGED nodeVars

ReaderTrackerNext ==
    \/ TrackerNext
    \/ CallGetAddr
    \/ CallGetUrl
    \/ \E batchNum \in 1..2 : CallGetSequenceBatch(batchNum)

ReaderTrackerSpec == TrackerInit /\ [][ReaderTrackerNext]_vars

(***************************************************************************)
(* The node: L1, the synchronizer with its resolver, the endpoint.         *)
(***************************************************************************)

Init ==
    /\ syncTasks = <<>>
    /\ unresolved = {}
    /\ offchain = <<>>
    /\ head = 1
    /\ chain = [b \in 1..MaxHead |-> 0]
    /\ bs = BsAt("init", <<>>)
    /\ covered = {}
    /\ rpc = RpcIdle(<<>>, ErrNil, <<>>)
    /\ call = <<>>
    /\ TrackerIdle

Next ==
    \/ L1NewBlock
    \/ L1Reorg
    \/ SyncInit
    \/ SyncRewind
    \/ SyncFollow
    \/ SyncStoreKeys
    \/ SyncStoreCursor
    \/ SyncResolve
    \/ ResolverFetch
    \/ ResolverStore
    \/ ResolverDelete
    \/ ResolverReturn
    \/ SyncCrash
    \/ \E req \in Requests : SignSequenceCheck(req)
    \/ SignSequenceStore

Spec == Init /\ [][Next]_vars

(***************************************************************************)
(* The store on its own: a client that calls the methods of db/db.go one   *)
(* after another, at most MaxCalls times, on the table the calls before    *)
(* have left.                                                              *)
(***************************************************************************)
\* The items a client may store: both keys, each with any of the payloads
\* (the empty one and one with a byte below 16 after another byte included)
\* and batch numbers, so a key is also stored again with other contents.
Items ==
    [Key : {Keccak256Hash(P1), Keccak256Hash(P2)},
     Value : {P1, P2, P3, <<>>, <<18, 5>>},
     BatchNum : 0..2]

CallIdle(n) == [n |-> n, op |-> "none", item |-> <<>>, err |-> ErrNil, once |-> <<>>]

StoreInit ==
    /\ syncTasks = <<>>
    /\ unresolved = {}
    /\ offchain = <<>>
    /\ head = 1
    /\ chain = [b \in 1..MaxHead |-> 0]
    /\ bs = BsAt("init", <<>>)
    /\ covered = {}
    /\ rpc = RpcIdle(<<>>, ErrNil, <<>>)
    /\ call = CallIdle(0)
    /\ TrackerIdle

\* storeOffChainData([d]) on the table as it is.
CallStoreOffChainData(d) ==
    /\ call.n < MaxCalls
    /\ \E fault \in {NoFault, BeginFault, ExecFault(1), CommitFault} :
          LET r == StoreOffChainData(offchain, <<d>>, fault)
          IN  /\ offchain' = r.tbl
              /\ call' = [n |-> call.n + 1, op |-> "store", item |-> d, err |-> r.err,
                          once |-> r.tbl]
    /\ UNCHANGED <<syncTasks, unresolved, head, chain, bs, covered, rpc>>
    /\ UNCHANGED trackerVars

\* storeOffChainData([d]) once more, after a call with the same d that
\* returned no error.
CallStoreOffChainDataAgain ==
    /\ call.op = "store" /\ call.err = ErrNil
    /\ \E fault \in {NoFault, BeginFault, ExecFault(1), CommitFault} :
          LET r == StoreOffChainData(offchain, <<call.item>>, fault)
          IN  /\ offchain' = r.tbl
              /\ call' = [call EXCEPT !.op = "storeAgain", !.err = r.err]
    /\ UNCHANGED <<syncTasks, unresolved, head, chain, bs, covered, rpc>>
    /\ UNCHANGED trackerVars

\* The key lists a reader may ask for: of no, one or two hashes, a hash
\* twice and a hash of no row included.
HashLists ==
    LET hashes == {Keccak256Hash(P1), Keccak256Hash(P2), Keccak256Hash(P3)}
    IN  {<<>>} \cup {<<h>> : h \in hashes} \cup {<<h1, h2>> : h1, h2 \in hashes}

\* ListOffChainData(keys) of the retrieval endpoint on the table as it is.
CallListOffChainData(keys) ==
    /\ call.n < MaxCalls
    /\ LET r == RpcListOffChainData(offchain, keys)
       IN  call' = [n |-> call.n + 1, op |-> "list", keys |-> keys, err |-> r.err,
                    data |-> r.data]
    /\ UNCHANGED <<syncTasks, unresolved, offchain, head, chain, bs, covered, rpc>>
    /\ UNCHANGED trackerVars

\* getOffChainData(key) on the table as it is.
CallGetOffChainData(key) ==
    /\ call.n < MaxCalls
    /\ LET r == GetOffChainData(offchain, key)
       IN  call' = [n |-> call.n + 1, op |-> "get", key |-> key, err |-> r.err,
                    data |-> r.data]
    /\ UNCHANGED <<syncTasks, unresolved, offchain, head, chain, bs, covered, rpc>>
    /\ UNCHANGED trackerVars

StoreNext ==
    \/ \E d \in Items : CallStoreOffChainData(d)
    \/ \E keys \in HashLists : Len(keys) = 1 /\ CallGetOffChainData(keys[1])
    \/ CallStoreOffChainDataAgain
    \/ \E keys \in HashLists : CallListOffChainData(keys)

StoreSpec == StoreInit /\ [][StoreNext]_vars

(***************************************************************************)
(* The sync_tasks table on its own: a client that sets the start block,    *)
(* writes the row of another task and gets the start block, at most        *)
(* MaxCalls times.                                                         *)
(***************************************************************************)
CursorInit ==
    /\ syncTasks = <<>>
    /\ unresolved = {}
    /\ offchain = <<>>
    /\ head = 1
    /\ chain = [b \in 1..MaxHead |-> 0]
    /\ bs = BsAt("init", <<>>)
    /\ covered = {}
    /\ rpc = RpcIdle(<<>>, ErrNil, <<>>)
    /\ call = [n |-> 0, op |-> "none", block |-> 0, err |-> ErrNil]
    /\ TrackerIdle

\* setStartBlock(block)
CallSetStartBlock(block) ==
    /\ call.n < MaxCalls
    /\ \E fault \in {NoFault, BeginFault, ExecFault(1), CommitFault} :
          LET r == setStartBlock(syncTasks, block, fault)
          IN  /\ syncTasks' = r.tasks
              /\ call' = [n |-> call.n + 1, op |-> "setStartBlock", block |-> block,
                          err |-> r.err]
    /\ UNCHANGED <<unresolved, offchain, head, chain, bs, covered, rpc>>
    /\ UNCHANGED trackerVars

\* StoreLastProcessedBlock(block, task) for a task that is not "L1".
CallStoreLastProcessedBlock(block, task) ==
    /\ call.n < MaxCalls
    /\ syncTasks' = StoreLastProcessedBlock(syncTasks, block, task)
    /\ call' = [n |-> call.n + 1, op |-> "StoreLastProcessedBlock", block |-> block,
                err |-> ErrNil]
    /\ UNCHANGED <<unresolved, offchain, head, chain, bs, covered, rpc>>
    /\ UNCHANGED trackerVars

\* getStartBlock()
CallGetStartBlock ==
    /\ call.n < MaxCalls
    /\ LET r == getStartBlock(syncTasks)
       IN  call' = [n |-> call.n + 1, op |-> "getStartBlock", block |-> r.block,
                    err |-> r.err]
    /\ UNCHANGED <<syncTasks, unresolved, offchain, head, chain, bs, covered, rpc>>
    /\ UNCHANGED trackerVars

CursorNext ==
    \/ \E block \in 0..MaxHead : CallSetStartBlock(block)
    \/ \E block \in 0..MaxHead : CallStoreLastProcessedBlock(block, "L2")
    \/ CallGetStartBlock

CursorSpec == CursorInit /\ [][CursorNext]_vars

(***************************************************************************)
(* The sequence type on its own: a client that takes a sequence, hashes    *)
(* it, signs it with a key and recovers the signer.                        *)
(***************************************************************************)
MaxBatches == 2

\* The batches a client may put in a sequence: regular and forced ones, the
\* empty payload included.
BatchKinds == { Batch(data, ts) : data \in {P1, P2, <<>>}, ts \in {0, 30} }

\* The sequences: of no batch up to MaxBatches batches, from either
\* accumulator.
Sequences ==
    { [SequenceOf(batches) EXCEPT !.OldAccInputHash = old] :
        batches \in UNION { [1..n -> BatchKinds] : n \in 0..MaxBatches },
        old \in { [keccak |-> <<5>>], ZeroHash } }

SignInit ==
    /\ syncTasks = <<>>
    /\ unresolved = {}
    /\ offchain = <<>>
    /\ head = 1
    /\ chain = [b \in 1..MaxHead |-> 0]
    /\ bs = BsAt("init", <<>>)
    /\ covered = {}
    /\ rpc = RpcIdle(<<>>, ErrNil, <<>>)
    /\ call = [op |-> "none", seq |-> <<>>, hash |-> <<>>, sig |-> <<>>, signer |-> <<>>]
    /\ TrackerIdle

\* s.HashToSign()
CallHashToSign(s) ==
    /\ call.op = "none"
    /\ call' = [call EXCEPT !.op = "HashToSign", !.seq = <<s>>, !.hash = <<HashToSign(s)>>]
    /\ UNCHANGED <<syncTasks, unresolved, offchain, head, chain, bs, covered, rpc>>
    /\ UNCHANGED trackerVars

\* s.Sign(privateKey)
CallSign(privateKey) ==
    /\ call.op = "HashToSign"
    /\ call' = [call EXCEPT !.op = "Sign", !.sig = <<SequenceSign(call.seq[1], privateKey)>>]
    /\ UNCHANGED <<syncTasks, unresolved, offchain, head, chain, bs, covered, rpc>>
    /\ UNCHANGED trackerVars

\* The bytes a caller may send as the last byte of a signature, and the
\* lengths a signature may come with.
WireV == {0, 1, 26, 27, 28, 29, 54, 255}

WireLen == {64, 65, 66}

\* The signature reaches the node with another last byte or another length.
CallWire(v, len) ==
    /\ call.op = "Sign"
    /\ call' = [call EXCEPT !.op = "Wire", !.sig = <<[call.sig[1] EXCEPT !.v = v, !.len = len]>>]
    /\ UNCHANGED <<syncTasks, unresolved, offchain, head, chain, bs, covered, rpc>>
    /\ UNCHANGED trackerVars

\* SignedSequenceBanana{s, signature}.Signer(): its results, the signature
\* the request holds after the call, and the recovery id it used.
CallSigner ==
    /\ call.op \in {"Sign", "Wire"}
    /\ LET decoded == SignerDecode(call.sig[1])
       IN  call' = [op |-> IF call.op = "Sign" THEN "Signer" ELSE "SignerWire",
                    seq |-> call.seq, hash |-> call.hash,
                    sig |-> call.sig,
                    signer |-> <<Signer([Sequence |-> call.seq[1],
                                         Signature |-> call.sig[1]])>>,
                    held |-> IF call.sig[1].len = signatureLen THEN decoded.held
                             ELSE call.sig[1],
                    recid |-> IF call.sig[1].len = signatureLen THEN <<decoded.sig.v>>
                              ELSE <<>>]
    /\ UNCHANGED <<syncTasks, unresolved, offchain, head, chain, bs, covered, rpc>>
    /\ UNCHANGED trackerVars

SignNext ==
    \/ \E s \in Sequences : CallHashToSign(s)
    \/ \E privateKey \in {SequencerKey, StrangerKey, NodeKey} : CallSign(privateKey)
    \/ \E v \in WireV, len \in WireLen : CallWire(v, len)
    \/ CallSigner

SignSpec == SignInit /\ [][SignNext]_vars

(***************************************************************************)
(* The unresolved_batches table on its own: a client that stores and       *)
(* deletes lists of keys, at most MaxCalls times.                          *)
(***************************************************************************)
\* The keys a client may pass: three keys, two of them of one hash.
Keys ==
    { [Number |-> 1, Hash |-> Keccak256Hash(P1)],
      [Number |-> 2, Hash |-> Keccak256Hash(P2)],
      [Number |-> 3, Hash |-> Keccak256Hash(P1)] }

\* The key lists: of no, one or two keys, a key twice included.
KeyLists == {<<>>} \cup {<<k>> : k \in Keys} \cup {<<k1, k2>> : k1, k2 \in Keys}

\* The faults of a write of up to two rows, a failed Rollback included.
WriteFaults ==
    {NoFault, BeginFault, CommitFault, ExecFault(1), ExecFault(2),
     RollbackFault(1), RollbackFault(2)}

KeysInit ==
    /\ syncTasks = <<>>
    /\ unresolved = {}
    /\ offchain = <<>>
    /\ head = 1
    /\ chain = [b \in 1..MaxHead |-> 0]
    /\ bs = BsAt("init", <<>>)
    /\ covered = {}
    /\ rpc = RpcIdle(<<>>, ErrNil, <<>>)
    /\ call = [n |-> 0, op |-> "none", arg |-> <<>>, err |-> ErrNil, log |-> <<>>]
    /\ TrackerIdle

\* storeUnresolvedBatchKeys(ks) on the table as it is.
CallStoreUnresolvedBatchKeys(ks) ==
    /\ call.n < MaxCalls
    /\ \E fault \in WriteFaults :
          LET r == StoreUnresolvedBatchKeys(unresolved, ks, fault)
          IN  /\ unresolved' = r.tbl
              /\ call' = [n |-> call.n + 1, op |-> "store", arg |-> ks, err |-> r.err,
                          log |-> TxLog(Len(ks), fault)]
    /\ UNCHANGED <<syncTasks, offchain, head, chain, bs, covered, rpc>>
    /\ UNCHANGED trackerVars

\* deleteUnresolvedBatchKeys(ks) on the table as it is.
CallDeleteUnresolvedBatchKeys(ks) ==
    /\ call.n < MaxCalls
    /\ \E fault \in WriteFaults :
          LET r == DeleteUnresolvedBatchKeys(unresolved, ks, fault)
          IN  /\ unresolved' = r.tbl
              /\ call' = [n |-> call.n + 1, op |-> "delete", arg |-> ks, err |-> r.err,
                          log |-> TxLog(Len(ks), fault)]
    /\ UNCHANGED <<syncTasks, offchain, head, chain, bs, covered, rpc>>
    /\ UNCHANGED trackerVars

\* The item lists a client may store: of no, one or two items, an item
\* twice included.
ItemLists ==
    LET items == { [Key |-> Keccak256Hash(P1), Value |-> P1, BatchNum |-> 1],
                   [Key |-> Keccak256Hash(P2), Value |-> P2, BatchNum |-> 2] }
    IN  {<<>>} \cup {<<d>> : d \in items} \cup {<<d1, d2>> : d1, d2 \in items}

\* storeOffchainData(od) on the table as it is.
CallStoreOffChainDataList(od) ==
    /\ call.n < MaxCalls
    /\ \E fault \in WriteFaults :
          LET r == StoreOffChainData(offchain, od, fault)
          IN  /\ offchain' = r.tbl
              /\ call' = [n |-> call.n + 1, op |-> "storeData", arg |-> od, err |-> r.err,
                          log |-> TxLog(Len(od), fault)]
    /\ UNCHANGED <<syncTasks, unresolved, head, chain, bs, covered, rpc>>
    /\ UNCHANGED trackerVars

KeysNext ==
    \/ \E ks \in KeyLists : CallStoreUnresolvedBatchKeys(ks)
    \/ \E ks \in KeyLists : CallDeleteUnresolvedBatchKeys(ks)
    \/ \E od \in ItemLists : CallStoreOffChainDataList(od)

KeysSpec == KeysInit /\ [][KeysNext]_vars

(***************************************************************************)
(* Two writers of offchain_data at once: each runs StoreOffChainData of    *)
(* one item in its own transaction.  The statement of a writer waits for   *)
(* the row lock while the other writer's transaction holds the same key    *)
(* uncommitted; a row is visible from its Commit on.  At most MaxCalls     *)
(* rounds, the table kept from round to round.                             *)
(***************************************************************************)
\* The items the Resolver stores for the keys: key, payload, the key's
\* batch number.
ResolverItems ==
    { ResolvedData(<<k>>, [x \in {k} |-> <<k.Hash.keccak>>])[1] : k \in Keys }

\* The items the attestation path stores: OffChainData() of the sequences.
AttestationItems ==
    { OffChainData(s)[i] : <<s, i>> \in { t \in {SeqA, SeqB} \X (1..2) :
                                            t[2] <= Len(t[1].Batches) } }

Writers == {1, 2}

RaceIdle(n) == [n |-> n, op |-> "none", w |-> <<>>, before |-> <<>>, order |-> <<>>]

RaceInit ==
    /\ syncTasks = <<>>
    /\ unresolved = {}
    /\ offchain = <<>>
    /\ head = 1
    /\ chain = [b \in 1..MaxHead |-> 0]
    /\ bs = BsAt("init", <<>>)
    /\ covered = {}
    /\ rpc = RpcIdle(<<>>, ErrNil, <<>>)
    /\ call = RaceIdle(0)
    /\ TrackerIdle

\* Two writers set out to store an item of the same key: the first a
\* resolve attempt, the second a resolve attempt or the attestation path.
RaceStart(d1, d2) ==
    /\ call.n < MaxCalls
    /\ call.op = "race" => \A w \in Writers : call.w[w].pc = "committed"
    /\ d1.Key = d2.Key
    /\ call' = [n |-> call.n + 1, op |-> "race",
                w |-> <<[item |-> d1, pc |-> "begun"], [item |-> d2, pc |-> "begun"]>>,
                before |-> offchain, order |-> <<>>]
    /\ UNCHANGED <<syncTasks, unresolved, offchain, head, chain, bs, covered, rpc>>
    /\ UNCHANGED trackerVars

\* ExecContext of writer w's upsert: it takes the row lock of the key.
RaceExec(w) ==
    /\ call.op = "race"
    /\ call.w[w].pc = "begun"
    /\ \A o \in Writers \ {w} : call.w[o].pc # "executed"
    /\ call' = [call EXCEPT !.w[w].pc = "executed"]
    /\ UNCHANGED <<syncTasks, unresolved, offchain, head, chain, bs, covered, rpc>>
    /\ UNCHANGED trackerVars

\* Commit of writer w: its row is in the table.
RaceCommit(w) ==
    /\ call.op = "race"
    /\ call.w[w].pc = "executed"
    /\ offchain' = StoreOffChainData(offchain, <<call.w[w].item>>, NoFault).tbl
    /\ call' = [call EXCEPT !.w[w].pc = "committed", !.order = Append(@, w)]
    /\ UNCHANGED <<syncTasks, unresolved, head, chain, bs, covered, rpc>>
    /\ UNCHANGED trackerVars

RaceNext ==
    \/ \E d1 \in ResolverItems, d2 \in ResolverItems \cup AttestationItems : RaceStart(d1, d2)
    \/ \E w \in Writers : RaceExec(w)
    \/ \E w \in Writers : RaceCommit(w)

RaceSpec == RaceInit /\ [][RaceNext]_vars

(***************************************************************************)
(* The RESOLVE step on its own, cycle after cycle: unresolved_batches      *)
(* holds some keys, the sources can serve the payloads of some hashes and  *)
(* always do when asked, the store never fails, and each tick starts the   *)
(* next RESOLVE.                                                           *)
(***************************************************************************)
\* The keys that may be in unresolved_batches: those of both forks.
ForkKeys == Keys \cup {[Number |-> 2, Hash |-> Keccak256Hash(P3)]}

ResolveLoopInit ==
    /\ syncTasks = StoreLastProcessedBlock(<<>>, MaxHead - ConfirmationDepth, L1SyncTask)
    /\ unresolved \in (SUBSET {[num |-> k.Number, hash |-> HashHex(k.Hash)] : k \in ForkKeys}) \ {{}}
    /\ offchain = <<>>
    /\ head = MaxHead
    /\ chain = [b \in 1..MaxHead |-> 0]
    /\ bs = BsAt("resolve", <<>>)
    /\ covered = {}
    /\ rpc = RpcIdle(<<>>, ErrNil, <<>>)
    /\ call \in [available : SUBSET {k.Hash : k \in ForkKeys}]
    /\ TrackerIdle

\* The next tick: FOLLOW finds no new block and RESOLVE runs again.
ResolveTick ==
    /\ bs.pc = "follow"
    /\ bs' = BsAt("resolve", bs.lastHash)
    /\ UNCHANGED <<syncTasks, unresolved, offchain, head, chain, covered, rpc, call>>
    /\ UNCHANGED trackerVars

\* The sources answer a key with its payload exactly when they can serve it.
AnswersAsAvailable ==
    \A k \in Range(bs.ks) :
        k.Hash \in call.available <=> Matching(k, bs'.answers[k]) # <<>>

ResolveLoopNext ==
    \/ ResolveTick
    \/ SyncResolve
    \/ ResolverFetch /\ AnswersAsAvailable
    \/ ResolverStore /\ bs'.pc = "deleteKeys"
    \/ ResolverDelete /\ bs'.pc = "resolved"
    \/ ResolverReturn

ResolveLoopSpec == ResolveLoopInit /\ [][ResolveLoopNext]_vars

\* The synchronizer's loop keeps running.
FairResolveLoopSpec == ResolveLoopSpec /\ WF_vars(ResolveLoopNext)

(***************************************************************************)
(* Claims checked on the node (Spec).                                      *)
(***************************************************************************)
KeyRow(k) == [num |-> k.Number, hash |-> HashHex(k.Hash)]

\* A batch key is recorded: its payload is stored or the key is unresolved.
Recorded(k) == Exists(offchain, k.Hash) \/ KeyRow(k) \in unresolved

\* C1 (as claimed): when the Resolver persists a resolved key, no reader sees
\* the key's payload in offchain_data while the key is still in
\* unresolved_batches: between the Resolver's write of the payloads and its
\* delete of the keys there is no observable state.
C1_ResolveAtomicity ==
    bs.pc = "deleteKeys" =>
        \A k \in Range(bs.resolved) :
            ~(Exists(offchain, k.Hash) /\ KeyRow(k) \in unresolved)

\* C2 (as claimed): the insertion of a FOLLOW step's new keys and the advance
\* of the cursor to `to` are one step: whenever the step's keys appear in
\* unresolved_batches the cursor is at `to` in the same state.
C2_FollowAtomic ==
    [][(bs.pc = "storeKeys" /\ unresolved' # unresolved) => Cursor' = bs.to]_vars

\* C2, the part that holds with the two writes as two commits, keys first:
\* whenever the cursor advances, also after a crash or a failed write in
\* between, every batch key of the events scanned for the range is already
\* recorded, before and after that step.
C2_KeysBeforeCursor ==
    [][Cursor' > Cursor =>
          /\ bs.pc = "storeCursor" /\ Cursor' = bs.to
          /\ \A k \in Range(bs.scanned) : Recorded(k) /\ Recorded(k)']_vars

\* C3: every batch key of every range the cursor has been moved over has its
\* payload in offchain_data or is in unresolved_batches, in every state that
\* follows, whatever the Resolver and SignSequence do in between.
C3_UnresolvedSetClosure == \A k \in covered : Recorded(k)

\* C3 witness: the cursor has passed batches of which one was resolved by the
\* Resolver and another is still unresolved.
C3_Witness ==
    /\ \E k \in covered : Exists(offchain, k.Hash) /\ KeyRow(k) \notin unresolved
    /\ \E k \in covered : ~Exists(offchain, k.Hash)
    /\ rpc.req # <<>>

\* C4: the cursor is lowered only by the rewind of a detected reorganisation,
\* by the reorg window; every other step leaves it as it is or raises it.
C4_CursorMonotonic ==
    [][Cursor' < Cursor =>
          /\ bs.pc = "follow" /\ bs.lastHash # <<>> /\ HeaderHash(Cursor) # bs.lastHash
          /\ Cursor' = Max(Cursor - ReorgWindow, GenesisBlock)]_vars

\* C4 witness: with no reorganisation the cursor has advanced twice.
C4_Witness == LatestFork = 0 /\ Cursor = 3 /\ bs.lastHash = HeaderHash(3)

\* The request's signature is the current sequencer's, made over the hash of
\* the request's sequence, and is encoded as the wire form asks.
Authorized(req) ==
    /\ req.Signature.len = signatureLen
    /\ PubkeyToAddress(req.Signature.key) = addr
    /\ req.Signature.over = HashToSign(req.Sequence)
    /\ req.Signature.v = RecoveryId(req.Signature.key, req.Signature.over) + 27

\* C5: a SignSequence call whose signature is not the current sequencer's over
\* this sequence, or recovers no signer, ends Unauthorized with no node
\* signature and leaves offchain_data as it was.
C5_SignerAuthorization ==
    [][\A req \in Requests :
          (rpc.pc = "idle" /\ rpc' # rpc /\ rpc'.req = <<req>> /\ ~Authorized(req)) =>
              /\ rpc'.pc = "idle"
              /\ rpc'.err = ErrUnauthorized
              /\ rpc'.sig = <<>>
              /\ offchain' = offchain]_vars

\* C5 witness: a call with the sequencer's signature over another sequence
\* has ended Unauthorized while payloads are stored.
C5_Witness ==
    /\ rpc.pc = "idle" /\ rpc.req # <<>> /\ rpc.err = ErrUnauthorized
    /\ rpc.req[1].Signature.key = SequencerKey
    /\ rpc.req[1].Signature.over # HashToSign(rpc.req[1].Sequence)
    /\ offchain # <<>>

\* C6: every row of offchain_data holds, under key, a value whose Keccak-256
\* is the key.
C6_HashIntegrity ==
    \A k \in DOMAIN offchain :
        LET d == RowToOffChainData(offchain, k)
        IN  d.Key = Keccak256Hash(d.Value)

\* C6 witness: rows written by SignSequence and by the Resolver, the Resolver
\* having been answered wrong bytes first.
C6_Witness ==
    /\ \E k \in DOMAIN offchain : offchain[k].batch_num = 0
    /\ \E k \in DOMAIN offchain : offchain[k].batch_num > 0
    /\ bs.pc = "resolved"
    /\ \E i \in 1..Len(bs.results) :
          Head(bs.answers[[Number |-> bs.results[i].BatchNum, Hash |-> bs.results[i].Key]]) = PWrong

\* The payload of a hash was in offchain_data when resolve looked: a resolved
\* key of that hash has no item among the results.
StoredBefore(hash) ==
    /\ \E k \in Range(bs.resolved) : k.Hash = hash
    /\ \A i \in 1..Len(bs.results) : bs.results[i].Key # hash

\* C9 (as claimed): when resolve(ks) has returned with no store error, the keys
\* of ks still in unresolved_batches are exactly those whose payload was
\* neither in offchain_data already nor supplied by a source with bytes of
\* the key's hash; keys that share a hash with another key of ks included.
C9_ResolveOutcome ==
    bs.pc = "resolved" =>
        {k \in Range(bs.ks) : KeyRow(k) \in unresolved}
            = {k \in Range(bs.ks) :
                  Matching(k, bs.answers[k]) = <<>> /\ ~StoredBefore(k.Hash)}

(***************************************************************************)
(* Claims checked on the store (StoreSpec).                                *)
(***************************************************************************)
\* C10: storeOffChainData([d]) called a second time leaves offchain_data as
\* the first call left it: the same rows, values and batch numbers.
C10_IdempotentStorage ==
    [][call'.op = "storeAgain" => offchain' = call.once /\ offchain' = offchain]_vars

\* C10 witness: the last of MaxCalls calls stored its item a second time with
\* no error, a batch number above zero, beside a row of another key.
C10_Witness ==
    /\ call.op = "storeAgain" /\ call.err = ErrNil
    /\ call.n = MaxCalls
    /\ call.item.BatchNum > 0
    /\ Cardinality(DOMAIN offchain) = 2
    /\ offchain = call.once

(***************************************************************************)
(* Claims checked on the tracker (FairTrackerSpec).                        *)
(***************************************************************************)
\* C7 (as claimed): after Stop() on a started Tracker both watcher loops
\* eventually exit, whatever each loop is doing at that moment.
C7_TrackerShutdown ==
    (started /\ stop = "closed") ~> (\A w \in Watchers : watcher[w].pc = "exited")

\* C8 (as claimed): once the contract's address and URL stay as they are, a
\* running Tracker (started, not stopped, its context live) eventually
\* returns them from GetAddr and GetUrl and keeps returning them.
C8_TrackerFreshness ==
    <>[]((started /\ stop = "open" /\ parentCtx = "live") =>
            (GetAddr = l1seq.addr /\ GetUrl = l1seq.url))

\* C11: after storeOffChainData([d]) has returned no error, getOffChainData
\* of d's key returns d: the same key, value (the empty one too) and batch
\* number, and no error.
C11_OffChainRoundTrip ==
    (call.op = "store" /\ call.err = ErrNil) =>
        GetOffChainData(offchain, call.item.Key) = [data |-> <<call.item>>, err |-> ErrNil]

\* C11 witness: an item with the empty value and a batch number above zero
\* was stored over a row of its key, beside a row of the other key.
C11_Witness ==
    /\ call.op = "store" /\ call.err = ErrNil /\ call.n = MaxCalls
    /\ call.item.Value = <<>> /\ call.item.BatchNum > 0
    /\ Cardinality(DOMAIN offchain) = 2

(***************************************************************************)
(* Claims checked on the unresolved_batches table (KeysSpec).              *)
(***************************************************************************)
\* C12 (as claimed): after storeUnresolvedBatchKeys(ks) has returned no error,
\* whatever the table held before, every list getUnresolvedBatchKeys(|ks|)
\* may return contains every key of ks.
C12_UnresolvedRoundTrip ==
    (call.op = "store" /\ call.err = ErrNil) =>
        \A got \in GetUnresolvedBatchKeys(unresolved, Len(call.arg)) :
            Range(call.arg) \subseteq Range(got)

\* C12 (amended): after storeUnresolvedBatchKeys(ks) has returned no error,
\* every list getUnresolvedBatchKeys(limit) may return, for a limit that is
\* not below the number of rows of the table, contains every key of ks.
C12_RoundTripUnderLimit ==
    (call.op = "store" /\ call.err = ErrNil) =>
        \A limit \in Cardinality(unresolved)..(Cardinality(unresolved) + 1) :
            \A got \in GetUnresolvedBatchKeys(unresolved, limit) :
                Range(call.arg) \subseteq Range(got)

\* C12 witness: two keys were stored with no error into a table that held
\* another key.
C12_Witness ==
    /\ call.op = "store" /\ call.err = ErrNil /\ call.n > 1
    /\ Len(call.arg) = 2 /\ call.arg[1] # call.arg[2]
    /\ Cardinality(unresolved) = 3


\* The numbers under which L1 sequences a payload, on any fork.
L1BatchNumbers(payload) ==
    { BlockBatches(f, b)[i].Number :
        <<f, b, i>> \in { t \in (0..MaxReorgs) \X (1..MaxHead) \X (1..2) :
                            /\ t[3] <= Len(BlockBatches(t[1], t[2]))
                            /\ BlockBatches(t[1], t[2])[t[3]].L2Data = payload } }

\* C13: a successful SignSequence leaves, for every batch of its sequence in
\* turn, the row OffChainData() derives for it: the key is the Keccak-256 of
\* the payload, the value is the payload, and the batch number is that
\* batch's number.
C13_PayloadDerivation ==
    [][(rpc.pc = "store" /\ rpc'.pc = "idle" /\ rpc'.err = ErrNil) =>
          LET batches == rpc.req[1].Sequence.Batches
              od == OffChainData(rpc.req[1].Sequence)
          IN  /\ Len(od) = Len(batches)
              /\ \A i \in 1..Len(batches) :
                    /\ od[i].Key = Keccak256Hash(batches[i].L2Data)
                    /\ od[i].Value = batches[i].L2Data
                    /\ od[i].BatchNum \in L1BatchNumbers(batches[i].L2Data)
                    /\ GetOffChainData(offchain', od[i].Key).data = <<od[i]>>]_vars


RECURSIVE AccInputHash(_, _)
\* The accumulated input hash after the first n batches of s, as the
\* contract defines it.
AccInputHash(s, n) ==
    IF n = 0 THEN s.OldAccInputHash
    ELSE LET b == s.Batches[n]
             acc == AccInputHash(s, n - 1)
         IN  IF b.ForcedTimestamp > 0
             THEN SoliditySHA3(<<acc, Keccak256Hash(b.L2Data), b.ForcedGER,
                                 b.ForcedTimestamp, b.Coinbase, b.ForcedBlockHashL1>>)
             ELSE SoliditySHA3(<<acc, Keccak256Hash(b.L2Data), s.L1InfoRoot,
                                 s.MaxSequenceTimestamp, b.Coinbase, ZeroHash>>)

\* C14: HashToSign is the left fold of the batches from OldAccInputHash, a
\* forced batch hashed with its forced values and a regular one with the
\* sequence's; the sequence of no batch gives OldAccInputHash; Sign signs
\* that value and Signer recovers the signing key's address over it.
C14_HashToSignFold ==
    call.op # "none" =>
        LET s == call.seq[1]
        IN  /\ call.hash[1] = AccInputHash(s, Len(s.Batches))
            /\ s.Batches = <<>> => call.hash[1] = s.OldAccInputHash
            /\ call.op \in {"Sign", "Signer"} => call.sig[1].over = call.hash[1]
            /\ call.op = "Signer" =>
                  call.signer[1] = [addr |-> PubkeyToAddress(call.sig[1].key), err |-> ErrNil]

\* C14 witness: the signer is recovered for a sequence of a forced batch
\* followed by a regular one.
C14_Witness ==
    /\ call.op = "Signer"
    /\ Len(call.seq[1].Batches) = 2
    /\ call.seq[1].Batches[1].ForcedTimestamp > 0
    /\ call.seq[1].Batches[2].ForcedTimestamp = 0
    /\ call.signer[1].addr = PubkeyToAddress(NodeKey)


\* C15: ListOffChainData of the retrieval endpoint answers a key list whose
\* keys all have rows with the map of every requested key to its stored
\* payload, and any other key list with an error that names a requested key
\* of no row, and with no payload.
C15_ListAllOrNothing ==
    call.op = "list" =>
        LET stored(k) == HashHex(k) \in DOMAIN offchain
        IN  IF \A i \in 1..Len(call.keys) : stored(call.keys[i])
            THEN /\ call.err = ErrNil
                 /\ DOMAIN call.data = Range(call.keys)
                 /\ \A k \in DOMAIN call.data :
                       call.data[k] = FromHex(offchain[HashHex(k)].value)
            ELSE /\ \E i \in 1..Len(call.keys) :
                       ~stored(call.keys[i]) /\ call.err = ErrNotFound(call.keys[i])
                 /\ call.data = <<>>

\* C15 witness: two keys are asked for, the first has a row and the second
\* has none.
C15_Witness ==
    /\ call.op = "list"
    /\ Len(call.keys) = 2
    /\ HashHex(call.keys[1]) \in DOMAIN offchain
    /\ HashHex(call.keys[2]) \notin DOMAIN offchain
    /\ call.err # ErrNil


\* C16: getStartBlock reads the row of task "L1": with block b >= 1 there it
\* returns b - 1 and no error, and with the read failing (no row of the
\* task) it returns the read's error.
C16_GetStartBlock ==
    call.op = "getStartBlock" =>
        IF L1SyncTask \in DOMAIN syncTasks
        THEN /\ call.err = ErrNil
             /\ syncTasks[L1SyncTask] >= 1 => call.block = syncTasks[L1SyncTask] - 1
        ELSE call.err = ErrNoRows

\* C16 witness: the start block is read after it was set above 1, the row of
\* another task holding a different block.
C16_Witness ==
    /\ call.op = "getStartBlock"
    /\ call.err = ErrNil
    /\ call.block >= 1
    /\ "L2" \in DOMAIN syncTasks
    /\ syncTasks["L2"] # syncTasks[L1SyncTask]


\* The positions of a call log at which a database call was made.
TxCalls(log, op) == { i \in 1..Len(log) : log[i].op = op }

\* A database call of the log failed.
TxFailed(log, op) == \E i \in TxCalls(log, op) : ~log[i].ok

\* An error is another, or its text holds the other's text.
Carries(err, original) ==
    \E i \in 1..Len(err) : SubSeq(err, i, i + Len(original) - 1) = original

\* C17: storeUnresolvedBatchKeys, deleteUnresolvedBatchKeys and
\* storeOffchainData each begin one transaction, first of all; with a failed
\* write the transaction is rolled back and not committed; with every write
\* succeeding it is committed and not rolled back; the error of a failed
\* begin, write or commit comes back from the call (the write's within the
\* text of a new error when the rollback fails too), and no error otherwise.
C17_TxDiscipline ==
    call.op \in {"store", "delete", "storeData"} =>
        LET log == call.log
        IN  /\ TxCalls(log, "BeginTxx") = {1}
            /\ TxFailed(log, "ExecContext") =>
                  /\ Cardinality(TxCalls(log, "Rollback")) = 1
                  /\ TxCalls(log, "Commit") = {}
                  /\ Carries(call.err, ErrExec)
                  /\ ~TxFailed(log, "Rollback") => call.err = ErrExec
            /\ (~TxFailed(log, "BeginTxx") /\ ~TxFailed(log, "ExecContext")) =>
                  /\ Cardinality(TxCalls(log, "Commit")) = 1
                  /\ TxCalls(log, "Rollback") = {}
                  /\ TxCalls(log, "ExecContext") = 2..(Len(call.arg) + 1)
            /\ TxFailed(log, "BeginTxx") => call.err = ErrBegin /\ Len(log) = 1
            /\ TxFailed(log, "Commit") => call.err = ErrCommit
            /\ (\A i \in 1..Len(log) : log[i].ok) => call.err = ErrNil

\* C17 witness: storeOffchainData of two items whose second write fails and
\* is rolled back, after a deleteUnresolvedBatchKeys that committed.
C17_Witness ==
    /\ call.op = "storeData"
    /\ Len(call.arg) = 2
    /\ Len(call.log) = 4
    /\ call.log[3] = TxCall("ExecContext", 2, FALSE)
    /\ call.log[4] = TxCall("Rollback", 0, TRUE)
    /\ call.err = ErrExec
    /\ offchain # <<>>


\* The first failure of a call log, as the error the database gave.
OriginalFailure(log) ==
    IF TxFailed(log, "BeginTxx") THEN ErrBegin
    ELSE IF TxFailed(log, "ExecContext") THEN ErrExec
    ELSE ErrCommit

\* C18: a multi-row write that fails at a row, or at its commit, returns an
\* error that carries that failure and leaves both tables as they were, no
\* earlier row of the call applied; a write with no failure applies every
\* row.
C18_AllOrNothing ==
    [][call'.n = call.n + 1 =>
          IF \E i \in 1..Len(call'.log) : ~call'.log[i].ok
          THEN /\ call'.err # ErrNil
               /\ Carries(call'.err, OriginalFailure(call'.log))
               /\ unresolved' = unresolved
               /\ offchain' = offchain
          ELSE /\ call'.err = ErrNil
               /\ call'.op = "store" =>
                     unresolved' = unresolved \cup {KeyRow(k) : k \in Range(call'.arg)}
               /\ call'.op = "delete" =>
                     unresolved' = unresolved \ {KeyRow(k) : k \in Range(call'.arg)}
               /\ call'.op = "storeData" =>
                     \A d \in Range(call'.arg) :
                         GetOffChainData(offchain', d.Key).data = <<d>>]_vars

\* C18 witness: storeUnresolvedBatchKeys of two keys, the first of them new
\* to the table, has failed at the second key and at the rollback.
C18_Witness ==
    /\ call.op = "store"
    /\ Len(call.arg) = 2
    /\ Len(call.log) = 4
    /\ ~call.log[3].ok
    /\ ~call.log[4].ok
    /\ KeyRow(call.arg[1]) \notin unresolved
    /\ call.n > 1


(***************************************************************************)
(* Claims checked on the Resolver's handling of wrong answers (Spec).      *)
(***************************************************************************)
\* No source answered key k with bytes of its hash.
NoMatch(k) == Matching(k, bs.answers[k]) = <<>>

\* C19: in a resolve whose writes succeed, an answer whose Keccak-256 is not
\* the key's hash is never stored; a key answered wrong bytes first and its
\* payload by a later source gets its row, with the first matching answer;
\* a key no source answered with matching bytes gains no row in
\* offchain_data and stays in unresolved_batches.
C19_HashMismatch ==
    [][/\ (bs.pc = "storeData" /\ bs'.pc = "deleteKeys") =>
            \A k \in Range(bs.ks) :
                /\ \A v \in Range(bs.answers[k]) :
                      Keccak256Hash(v) # k.Hash =>
                          /\ \A i \in 1..Len(bs.results) :
                                bs.results[i].Key = k.Hash => bs.results[i].Value # v
                          /\ Exists(offchain', k.Hash) =>
                                GetOffChainData(offchain', k.Hash).data[1].Value # v
                /\ (~NoMatch(k) /\ ~StoredBefore(k.Hash)) =>
                      GetOffChainData(offchain', k.Hash).data
                          = << [Key |-> k.Hash,
                                Value |-> Head(Matching(k, bs.answers[k])),
                                BatchNum |-> (CHOOSE r \in Range(bs.results) :
                                                 r.Key = k.Hash).BatchNum] >>
                /\ NoMatch(k) => (Exists(offchain', k.Hash) => Exists(offchain, k.Hash))
       /\ (bs.pc = "deleteKeys" /\ bs'.pc = "resolved") =>
            \A k \in Range(bs.ks) :
                (NoMatch(k) /\ ~StoredBefore(k.Hash) /\ KeyRow(k) \in unresolved) =>
                    KeyRow(k) \in unresolved']_vars

\* C19 witness: a resolve of two keys has returned; one key was answered
\* wrong bytes and then its payload, which is stored; the other was answered
\* wrong bytes only, has no row and is still unresolved.
C19_Witness ==
    /\ bs.pc = "resolved"
    /\ \E k1, k2 \in Range(bs.ks) :
          /\ bs.answers[k1] = <<PWrong, k1.Hash.keccak>>
          /\ Exists(offchain, k1.Hash)
          /\ KeyRow(k1) \notin unresolved
          /\ bs.answers[k2] = <<PWrong>>
          /\ ~Exists(offchain, k2.Hash)
          /\ KeyRow(k2) \in unresolved


(***************************************************************************)
(* Claims checked on the tracker's loops (FairTrackerSpec).                *)
(***************************************************************************)
\* C20 (as claimed): a loop back at the top of its for statement after its
\* subscription ended (the context of that subscription is done: deadline
\* exceeded, or the subscription gave an error under it) does not go
\* straight on to the next Watch call: the only wait of the loop,
\* time.After(st.retry), lies behind a Watch call that failed.
C20_ResubscribeBackoff ==
    [][\A w \in Watchers :
          (watcher[w].pc = "top" /\ watcher[w].ctx = "done")
              => watcher'[w].pc \notin {"select", "retry"}]_vars


\* C20, second half (as claimed): no loop goes round for ever between the
\* top of its for statement and the log of case <-ctx.Done(), where it never
\* waits.
C20_NoBusySpin ==
    \A w \in Watchers : []<>(watcher[w].pc \notin {"top", "logged"})


(***************************************************************************)
(* Claims checked on the tracker with its readers (ReaderTrackerSpec).     *)
(***************************************************************************)
\* Watcher w takes an event from one of its subscriptions in this step, and
\* v is that event's value.
ReceivesEvent(w, v) ==
    /\ watcher[w].pc = "select"
    /\ watcher'[w].pc = "top"
    /\ \E s \in Range(subs[w].leaked \o subs[w].cur) : s # <<>> /\ Head(s) = v

\* C21: addr and url start as the contract has them; addr changes only in a
\* step in which the address watcher receives an event, and to that event's
\* address; url changes only in a step in which the URL watcher receives an
\* event, and to that event's URL; no step changes both, so neither watcher
\* writes the other's field, and subscription errors, deadlines, retries,
\* Stop and the readers change neither.
C21_TrackerFrame ==
    [][/\ addr' # addr => (ReceivesEvent("addr", addr') /\ url' = url)
       /\ url' # url => (ReceivesEvent("url", url') /\ addr' = addr)]_vars

\* C21 witness: the address watcher has set a new address, the URL is the
\* initial one, Stop was called, and a reader asks the sequencer for a batch.
C21_Witness ==
    /\ addr # InitialSequencer.addr
    /\ url = InitialSequencer.url
    /\ l1seq.url # InitialSequencer.url
    /\ stop = "closed"
    /\ call # <<>>
    /\ call.op = "GetSequenceBatch"


(***************************************************************************)
(* Claims checked on two concurrent writers (RaceSpec).                    *)
(***************************************************************************)
\* C22 (as claimed): when both writers of one key have committed,
\* offchain_data has one row of the key, and the table is the one the other
\* order of the two commits gives: the same value and batch number.
C22_ConcurrentStores ==
    (call.op = "race" /\ \A w \in Writers : call.w[w].pc = "committed") =>
        LET first == call.w[call.order[1]].item
            second == call.w[call.order[2]].item
            other == StoreOffChainData(
                         StoreOffChainData(call.before, <<second>>, NoFault).tbl,
                         <<first>>, NoFault).tbl
        IN  /\ HashHex(first.Key) \in DOMAIN offchain
            /\ CountOffchainData(offchain) = CountOffchainData(other)
            /\ offchain = other


C24_SignatureDecoding ==
    call.op \in {"Signer", "SignerWire"} =>
        LET sig == call.sig[1]
        IN  /\ call.held = sig
            /\ sig.len # 65 =>
                  call.signer[1] = [addr |-> ZeroAddress, err |-> ErrInvalidSignature]
            /\ sig.len = 65 =>
                  /\ call.recid = <<IF sig.v >= 27 THEN sig.v - 27 ELSE sig.v + 229>>
                  /\ call.recid[1] \in 0..255
                  /\ call.recid[1] \in {0, 1} <=> sig.v \in {27, 28}
                  /\ call.signer[1].err # ErrInvalidSignature

\* C24 witness: a 65-byte signature with last byte 26 was decoded: the
\* recovery id wrapped round to 255.
C24_Witness ==
    /\ call.op = "SignerWire"
    /\ call.sig[1].len = 65
    /\ call.sig[1].v = 26
    /\ call.recid = <<255>>
    /\ call.signer[1].err # ErrNil


(***************************************************************************)
(* Claims checked on the writes of unresolved_batches (KeysSpec).          *)
(***************************************************************************)
\* C25: storeUnresolvedBatchKeys of keys that all have their rows leaves
\* unresolved_batches as it was, and never makes a second row of a (num,
\* hash) pair; deleteUnresolvedBatchKeys(ks) removes the rows whose (num,
\* hash) pair is in ks and no other row: a pair with no row changes nothing,
\* and a row of the same hash under another batch number stays.
C25_UnresolvedWritesExact ==
    [][(call'.n = call.n + 1 /\ call'.err = ErrNil) =>
          LET rows == {KeyRow(k) : k \in Range(call'.arg)}
          IN  /\ (call'.op = "store" /\ rows \subseteq unresolved) =>
                    unresolved' = unresolved
              /\ call'.op = "store" =>
                    \A k \in Keys :
                        Cardinality({r \in unresolved' :
                                        r.num = k.Number /\ r.hash = HashHex(k.Hash)}) <= 1
              /\ call'.op = "delete" =>
                    /\ \A r \in unresolved : r \in unresolved' <=> r \notin rows
                    /\ unresolved' \subseteq unresolved
                    /\ rows \cap unresolved = {} => unresolved' = unresolved]_vars

\* C25 witness: a delete of the key of batch 1 and of a key with no row has
\* committed, and the row of batch 3, of the same hash as batch 1, is there.
C25_Witness ==
    /\ call.op = "delete"
    /\ call.err = ErrNil
    /\ call.arg = <<[Number |-> 1, Hash |-> Keccak256Hash(P1)],
                    [Number |-> 2, Hash |-> Keccak256Hash(P2)]>>
    /\ unresolved = {KeyRow([Number |-> 3, Hash |-> Keccak256Hash(P1)])}
    /\ call.n = MaxCalls


(***************************************************************************)
(* Claims checked on repeated RESOLVE steps (FairResolveLoopSpec).         *)
(***************************************************************************)
\* C26 (as claimed): a key in unresolved_batches whose payload the sources
\* can serve is removed in the end by the repeated RESOLVE steps, whatever
\* other keys the table holds.
C26_NoStarvation ==
    \A k \in ForkKeys :
        (KeyRow(k) \in unresolved /\ k.Hash \in call.available)
            ~> (KeyRow(k) \notin unresolved)


(***************************************************************************)
(* Claims checked on the tracker's subscriptions (TrackerSpec).            *)
(***************************************************************************)
\* The subscriptions of a watcher that are alive.
LiveSubs(w) == subs[w].leaked \o subs[w].cur

\* C27 (as claimed): a watcher has at most one live subscription at any time,
\* and once it has returned on stop, closing its events channel, no
\* subscription it made is alive to deliver to that channel.
C27_SubscriptionHygiene ==
    \A w \in Watchers :
        /\ Len(LiveSubs(w)) <= 1
        /\ watcher[w].pc = "exited" => LiveSubs(w) = <<>>

\* The second half on its own: after the return on stop no subscription of
\* the watcher is alive.
C27_NoneAfterExit ==
    \A w \in Watchers : watcher[w].pc = "exited" => LiveSubs(w) = <<>>


(***************************************************************************)
(* Claims checked on the tracker's lifecycle (LifecycleSpec).              *)
(***************************************************************************)
\* C28 (as claimed): however many times Start is called, the address loop
\* and the URL loop are launched exactly once; and calls of Stop, more than
\* one or before Start, never make the Tracker panic.
C28_Lifecycle ==
    /\ call.launched = (IF call.starts > 0 THEN 1 ELSE 0)
    /\ (call.launched = 0) = (\A w \in Watchers : watcher[w].pc = "idle")
    /\ ~call.panic

\* The first half on its own: the loops are launched at the first Start and
\* never again.
C28_StartOnce ==
    /\ call.launched = (IF call.starts > 0 THEN 1 ELSE 0)
    /\ (call.launched = 0) = (\A w \in Watchers : watcher[w].pc = "idle")

\* Stop before Start does not panic.
C28_StopBeforeStart == (call.stops <= 1) => ~call.panic

====
